---- MODULE Spec2Model ----
(***************************************************************************)
(* Game Boy DMG emulator (LSinus/gameboyDMG).                              *)
(*                                                                         *)
(* The machine is the CPU register file, the 64 KiB memory array behind    *)
(* WriteMem/ReadMem, the boot-ROM flag, the OAM DMA unit, the PPU mode     *)
(* machine and the timer, driven by the tick loop of main().               *)
(*                                                                         *)
(* memory is kept for the addresses of Addrs only.  Every other address at *)
(* or above 0x8000 still holds what InitializePowerOnState left there (a   *)
(* step that would store to such an address is not taken), and every other *)
(* address below 0x8000 is cartridge or boot-ROM content, which reaches    *)
(* the model as the bytes the program holds at the fetch address; so does  *)
(* a routine the program runs from high RAM.                               *)
(***************************************************************************)
EXTENDS Integers, Sequences, FiniteSets, TLC

VARIABLES cpu, memory, boot_rom_enabled, dma, ppu, timer, joypad,
          cycles_this_frame, frames, last, prev

vars == <<cpu, memory, boot_rom_enabled, dma, ppu, timer, joypad,
          cycles_this_frame, frames, last, prev>>

(***************************************************************************)
(* Fixed-width arithmetic                                                  *)
(***************************************************************************)
Byte == 0..255

W8(x) == x % 256

W16(x) == x % 65536

Lo(w) == w % 256

Hi(w) == (w \div 256) % 256

Bit(x, k) == (x \div (2^k)) % 2

RECURSIVE And8(_, _)
\* a & b, bit by bit from the lowest
And8(a, b) ==
    IF a = 0 \/ b = 0 THEN 0
    ELSE (a % 2) * (b % 2) + 2 * And8(a \div 2, b \div 2)

Or8(a, b) == a + b - And8(a, b)

Clear8(a, m) == a - And8(a, m)

(***************************************************************************)
(* Registers and enumerations of the headers                               *)
(***************************************************************************)
DIV_REG == 65284

TIMA_REG == 65285

TMA_REG == 65286

TAC_REG == 65287

IF_REG == 65295

IE_REG == 65535

P1_REG == 65280

LCDC_REG == 65344

STAT_REG == 65345

LY_REG == 65348

LYC_REG == 65349

DMA_REG == 65350

BOOT_REG == 65360

SB_REG == 65281

SC_REG == 65282

MODE_0_HBLANK == 0

MODE_1_VBLANK == 1

MODE_2_OAM_SCAN == 2

MODE_3_DRAWING == 3

CLOCK_FREQ_HZ == 4194304

DIV_INC_FREQ_HZ == 16384

\* cycles_this_frame < CYCLES_PER_FRAME compares an int with the double
\* 4194304 / 59.7 = 70256.3...; the loop goes on while the count is below 70257
FrameLimit == 70257

WINDOW_WIDTH == 160

\* if(dma.cycles >= 640) dma.running = false
DmaLength == 640

InVRAM(addr) == addr >= 32768 /\ addr <= 40959

InOAM(addr) == addr >= 65024 /\ addr <= 65183

\* the part of memory ReadMem answers from while a DMA transfer runs
InHRAM(addr) == addr >= 65408 /\ addr <= 65534

(***************************************************************************)
(* Bounds of the exploration                                               *)
(***************************************************************************)
\* T-cycles of one frame explored by the programs of the short specifications
Horizon == 40

\* frames the long specification runs: the first to its end, the later ones
\* for their first LaterFrame T-cycles
MaxFrames == 2

LaterFrame == 256

(***************************************************************************)
(* The tracked part of memory                                              *)
(***************************************************************************)
\* two bytes under the boot-ROM shadow, of VRAM, of work RAM, of OAM (the Y
\* and X of sprite 0), of high RAM, the top of the address space, and the
\* I/O registers the bus, the PPU, the timer and the interrupt logic use
Addrs ==
    {240, 241} \cup {32768, 32769} \cup {49152, 49153} \cup {65024, 65025}
    \cup {65408, 65409} \cup {65534, IE_REG}
    \cup {P1_REG, SB_REG, SC_REG, DIV_REG, TIMA_REG, TMA_REG, TAC_REG, IF_REG,
          LCDC_REG, STAT_REG, LY_REG, LYC_REG, DMA_REG, BOOT_REG}

\* content of the boot image at the tracked addresses of the shadow
boot == [a \in {240, 241} |-> 60]

\* I/O registers as InitializePowerOnState leaves them; the rest of the
\* zero-initialised array above the cartridge area is 0
PowerOnByte(addr) ==
    CASE addr < 65280 -> 0
      [] addr = 65280 -> 207
      [] addr = 65296 -> 128
      [] addr \in {65297, 65300, 65305, 65310, 65315} -> 191
      [] addr \in {65298, 65317} -> 243
      [] addr = 65302 -> 63
      [] addr = 65306 -> 127
      [] addr \in {65307, 65312, 65352, 65353} -> 255
      [] addr = 65308 -> 159
      [] addr = 65316 -> 119
      [] addr = 65318 -> 241
      [] addr = STAT_REG -> 2
      [] addr = 65351 -> 228
      [] OTHER -> 0

\* the global joypad before process_input has seen an event: no key is held
Released == [start |-> FALSE, select |-> FALSE, b |-> FALSE, a |-> FALSE,
             down |-> FALSE, up |-> FALSE, left |-> FALSE, right |-> FALSE]

(***************************************************************************)
(* The machine as one record, so that the C statements of a handler        *)
(* compose.  rom holds the bytes the program has at the address the opcode *)
(* is fetched from (base) and around it; ok records that the step stayed   *)
(* inside the tracked part of memory; ret is the int a handler returned.   *)
(***************************************************************************)
InWindow(rom, addr) ==
    addr \in {rom.base, W16(rom.base + 1), W16(rom.base + 2), W16(rom.base + 65535)}

CodeByte(rom, addr) ==
    IF addr = rom.base THEN rom.op
    ELSE IF addr = W16(rom.base + 1) THEN rom.lo
    ELSE IF addr = W16(rom.base + 2) THEN rom.hi
    ELSE rom.pm1

\* addr holds a byte of the program at the fetch address
CodeAt(rom, addr) ==
    /\ addr < 32768 \/ InHRAM(addr) \/ InVRAM(addr)
    /\ addr \notin Addrs
    /\ InWindow(rom, addr)

\* memory[addr]
Stored(s, addr) ==
    IF addr \in DOMAIN s.memory THEN s.memory[addr]
    ELSE IF addr >= 32768 /\ ~CodeAt(s.rom, addr) THEN PowerOnByte(addr)
    ELSE CodeByte(s.rom, addr)

\* boot[addr]
BootStored(s, addr) ==
    IF addr \in Addrs THEN boot[addr] ELSE CodeByte(s.rom, addr)

\* the model holds the byte: a tracked one, or one still at its power-on value
Known(s, addr) == addr \in Addrs \/ addr >= 32768

Chk(s, cond) == [s EXCEPT !.ok = @ /\ cond]

ppu_get_mode(s) == s.memory[STAT_REG] % 4

LcdOn(s) == s.memory[LCDC_REG] \div 128 = 1

\* a transfer that the OAM gate of WriteMem would stop
DmaCopyGated(s, data) ==
    IF s.memory[LCDC_REG] \div 128 = 1 /\ s.memory[STAT_REG] % 4 \in {2, 3}
    THEN s
    ELSE LET src == data * 256
         IN  [s EXCEPT !.memory = [a \in Addrs |->
                                     IF InOAM(a) THEN Stored(s, src + (a - 65024))
                                     ELSE s.memory[a]],
                       !.dma = [running |-> TRUE, cycles |-> 0],
                       !.since = 0]

\* the 160-byte memcpy of a write to 0xFF46, on the tracked part of OAM
DmaCopy(s, data) ==
    LET src == data * 256
        copied == [a \in Addrs |->
                     IF InOAM(a) THEN Stored(s, src + (a - 65024)) ELSE s.memory[a]]
        fits == \A i \in 0..159 :
                    /\ src + i >= 32768
                    /\ (src + i < 65024 \/ src + i > 65183)
                    /\ (65024 + i \in Addrs \/ Stored(s, src + i) = 0)
    IN  [Chk(s, fits) EXCEPT !.memory = copied,
                             !.dma = [running |-> TRUE, cycles |-> 0],
                             !.since = 0]

StoreByteRaw(s, addr, data) ==
    IF addr \in Addrs THEN [s EXCEPT !.memory[addr] = data] ELSE Chk(s, FALSE)

StoreByte(s, addr, data) ==
    IF addr # DIV_REG
    THEN (IF addr \in Addrs THEN [s EXCEPT !.memory[addr] = data] ELSE Chk(s, FALSE))
    ELSE [s EXCEPT !.memory[DIV_REG] = 0,
                   !.timer = [div_cycle_counter |-> 0, tima_cycle_counter |-> 0]]

\* a bus on which 0xFF50 is an ordinary register
WriteMemKeepsBoot(s, addr, data) ==
    IF LcdOn(s) /\ InVRAM(addr) /\ ppu_get_mode(s) = MODE_3_DRAWING THEN s
    ELSE IF LcdOn(s) /\ InOAM(addr)
            /\ ppu_get_mode(s) \in {MODE_2_OAM_SCAN, MODE_3_DRAWING} THEN s
    ELSE StoreByte(IF addr = DMA_REG THEN DmaCopy(s, data) ELSE s, addr, data)

WriteMem(s, addr, data) ==
    LET ppu_mode == ppu_get_mode(s) IN
    IF LcdOn(s) /\ InVRAM(addr) /\ ppu_mode = MODE_3_DRAWING THEN s
    ELSE IF LcdOn(s) /\ InOAM(addr)
            /\ (ppu_mode = MODE_2_OAM_SCAN \/ ppu_mode = MODE_3_DRAWING) THEN s
    ELSE LET s1 == IF addr = BOOT_REG THEN [s EXCEPT !.boot_rom_enabled = FALSE] ELSE s
             s2 == IF addr = DMA_REG THEN DmaCopy(s1, data) ELSE s1
         IN  StoreByte(s2, addr, data)

\* a matrix whose two groups are always selected
JoypadReadBothGroups(s) ==
    LET P1 == Or8(s.memory[P1_REG], 15)
    IN  Clear8(P1, (IF s.joypad.right \/ s.joypad.a THEN 1 ELSE 0)
                 + (IF s.joypad.left \/ s.joypad.b THEN 2 ELSE 0)
                 + (IF s.joypad.up \/ s.joypad.select THEN 4 ELSE 0)
                 + (IF s.joypad.down \/ s.joypad.start THEN 8 ELSE 0))

\* the joypad matrix read of 0xFF00
JoypadRead(s) ==
    LET P1 == Or8(s.memory[P1_REG], 15)
        dir == IF And8(P1, 16) = 0
               THEN (IF s.joypad.right THEN 1 ELSE 0) + (IF s.joypad.left THEN 2 ELSE 0)
                  + (IF s.joypad.up THEN 4 ELSE 0) + (IF s.joypad.down THEN 8 ELSE 0)
               ELSE 0
        P1d == Clear8(P1, dir)
        btn == IF And8(P1, 32) = 0
               THEN (IF s.joypad.a THEN 1 ELSE 0) + (IF s.joypad.b THEN 2 ELSE 0)
                  + (IF s.joypad.select THEN 4 ELSE 0) + (IF s.joypad.start THEN 8 ELSE 0)
               ELSE 0
    IN  Clear8(P1d, btn)

\* a bus with no DMA lockout
DmaNeverLocked(s, addr) == FALSE

DmaLocked(s, addr) == s.dma.running /\ (addr < 65408 \/ addr > 65534)

ReadMem(s, addr) ==
    LET ppu_mode == ppu_get_mode(s) IN
    IF DmaLocked(s, addr) THEN 255
    ELSE IF LcdOn(s) /\ InVRAM(addr) /\ ppu_mode = MODE_3_DRAWING THEN 255
    ELSE IF LcdOn(s) /\ InOAM(addr)
            /\ (ppu_mode = MODE_2_OAM_SCAN \/ ppu_mode = MODE_3_DRAWING) THEN 255
    ELSE IF s.boot_rom_enabled /\ addr < 256 THEN BootStored(s, addr)
    ELSE IF addr = P1_REG THEN JoypadRead(s)
    ELSE Stored(s, addr)

\* the read is answered by the bus gates or from a part of memory the model holds
Readable(s, addr) ==
    \/ s.dma.running /\ (addr < 65408 \/ addr > 65534)
    \/ LcdOn(s) /\ InVRAM(addr) /\ ppu_get_mode(s) = MODE_3_DRAWING
    \/ LcdOn(s) /\ InOAM(addr) /\ ppu_get_mode(s) \in {MODE_2_OAM_SCAN, MODE_3_DRAWING}
    \/ Known(s, addr)

\* code is fetched from the cartridge area, from video RAM or from high
\* RAM, clear of the tracked bytes
Fetchable(s, addr) == CodeAt(s.rom, addr)

\* a fetch that reads at PC without the increment and leaves halt_bug set
FetchByteKeepsBug(s) ==
    IF s.cpu.halt_bug
    THEN [s |-> Chk(s, Fetchable(s, s.cpu.PC)), v |-> ReadMem(s, s.cpu.PC)]
    ELSE [s |-> [Chk(s, Fetchable(s, s.cpu.PC)) EXCEPT !.cpu.PC = W16(s.cpu.PC + 1)],
          v |-> ReadMem(s, s.cpu.PC)]

FetchByte(s) ==
    LET pc == s.cpu.PC
        v == ReadMem(s, pc)
        t == Chk(s, Fetchable(s, pc))
    IN  IF s.cpu.halt_bug
        THEN [s |-> [t EXCEPT !.cpu.halt_bug = FALSE], v |-> v]
        ELSE [s |-> [t EXCEPT !.cpu.PC = W16(pc + 1)], v |-> v]

FetchWord(s) ==
    LET l == FetchByte(s)
        m == FetchByte(l.s)
    IN  [s |-> m.s, v |-> m.v * 256 + l.v]

\* a transfer that is over only once more than 640 T-cycles have been stepped
dma_stepLate(s, cycles) ==
    IF s.dma.running
    THEN [s EXCEPT !.dma = [running |-> ~(s.dma.cycles + cycles > 640),
                            cycles |-> s.dma.cycles + cycles]]
    ELSE s

dma_step(s, cycles) ==
    IF s.dma.running
    THEN LET c == s.dma.cycles + cycles
         IN  [s EXCEPT !.dma = [running |-> ~(c >= DmaLength), cycles |-> c]]
    ELSE s

(***************************************************************************)
(* Interrupt controller                                                    *)
(***************************************************************************)
Ret(s, n) == [s EXCEPT !.ret = n]

\* a controller that serves every request as VBLANK
VectorVblank(s, requested) ==
    [s EXCEPT !.memory[IF_REG] = Clear8(@, 1), !.cpu.PC = 64]

\* the service of the lowest pending source: acknowledge it and take its vector
Vector(s, requested) ==
    LET ack(bit, pc) == [s EXCEPT !.memory[IF_REG] = Clear8(@, bit), !.cpu.PC = pc]
    IN  IF And8(requested, 1) # 0 THEN ack(1, 64)
        ELSE IF And8(requested, 2) # 0 THEN ack(2, 72)
        ELSE IF And8(requested, 4) # 0 THEN ack(4, 80)
        ELSE IF And8(requested, 8) # 0 THEN ack(8, 88)
        ELSE IF And8(requested, 16) # 0 THEN ack(16, 96)
        ELSE s

\* cpu->SP -= 2; WriteMem(SP, PC & 0xFF); WriteMem(SP + 1, PC >> 8)
PushPC(s) ==
    LET push(sp, pc) ==
            WriteMem(WriteMem([s EXCEPT !.cpu.SP = sp], sp, Lo(pc)), W16(sp + 1), Hi(pc))
    IN  push(W16(s.cpu.SP + 65534), s.cpu.PC)

\* a controller that wakes the CPU only by serving an interrupt
handleInterruptsNoWake(s) ==
    LET requested == And8(ReadMem(s, IE_REG), ReadMem(s, IF_REG))
    IN  IF ~s.cpu.IME \/ requested = 0 THEN Ret(s, 0)
        ELSE Ret(Vector(PushPC([s EXCEPT !.cpu.halted = FALSE, !.cpu.IME = FALSE]),
                        requested), 20)

handleInterrupts(s) ==
    LET serve(requested) ==
            IF ~s.cpu.IME
            THEN Ret(IF requested # 0 THEN [s EXCEPT !.cpu.halted = FALSE] ELSE s, 0)
            ELSE IF requested = 0 THEN Ret(s, 0)
            ELSE Ret(Vector(PushPC([s EXCEPT !.cpu.halted = FALSE, !.cpu.IME = FALSE]),
                            requested), 20)
    IN  serve(And8(ReadMem(s, IE_REG), ReadMem(s, IF_REG)))

(***************************************************************************)
(* PPU                                                                     *)
(***************************************************************************)
ppu_set_mode(s, mode) ==
    [s EXCEPT !.ppu.mode = mode, !.memory[STAT_REG] = And8(@, 252) + mode]

\* hardware whose requests never reach IF
RaiseIFLost(s, bits) == s

RaiseIF(s, bits) == [s EXCEPT !.memory[IF_REG] = Or8(@, bits)]

RaiseIfStat(s, STAT, bit) == IF And8(STAT, bit) # 0 THEN RaiseIF(s, 2) ELSE s

OamEntry(s, i) ==
    <<Stored(s, 65024 + 4*i), Stored(s, 65025 + 4*i),
      Stored(s, 65026 + 4*i), Stored(s, 65027 + 4*i)>>

RECURSIVE ScanAll(_, _, _)
\* a scan that does not stop at the tenth visible entry
ScanAll(s, i, found) ==
    IF i = 40 THEN found
    ELSE LET obj == OamEntry(s, i)
             obj_height == IF And8(s.memory[LCDC_REG], 4) # 0 THEN 16 ELSE 8
             visible == s.ppu.ly >= obj[1] - 16 /\ s.ppu.ly < obj[1] - 16 + obj_height
         IN  ScanAll(s, i + 1, IF visible THEN Append(found, obj) ELSE found)

RECURSIVE Scan(_, _, _)
\* the loop over the 40 entries, which stops at the tenth visible one
Scan(s, i, found) ==
    IF i = 40 \/ Len(found) = 10 THEN found
    ELSE LET obj == OamEntry(s, i)
             obj_height == IF And8(s.memory[LCDC_REG], 4) # 0 THEN 16 ELSE 8
             visible == s.ppu.ly >= obj[1] - 16 /\ s.ppu.ly < obj[1] - 16 + obj_height
         IN  Scan(s, i + 1, IF visible THEN Append(found, obj) ELSE found)

\* sprite_comparator: the sign of _a[1] - _b[1]
sprite_comparator(a, b) == a[2] - b[2]

RECURSIVE Insert(_, _)
\* e, a pair of an entry and its rank, into a list ordered by the comparator
\* and, where that returns 0, by rank
Insert(sorted, e) ==
    LET top == sorted[Len(sorted)]
        cmp == sprite_comparator(e[1], top[1])
    IN  IF sorted = <<>> THEN <<e>>
        ELSE IF cmp < 0 \/ (cmp = 0 /\ e[2] < top[2])
             THEN Append(Insert(SubSeq(sorted, 1, Len(sorted) - 1), e), top)
             ELSE Append(sorted, e)

RECURSIVE Ranked(_, _, _)
Ranked(objs, tie, n) ==
    IF n = 0 THEN <<>>
    ELSE Insert(Ranked(objs, tie, n - 1),
                <<objs[n], IF n <= Len(tie) THEN tie[n] ELSE n>>)

\* qsort with sprite_comparator: ascending X.  qsort leaves the order of
\* entries that compare equal unspecified: tie, a permutation of 1..Len(tie),
\* is the order this call leaves them in (the entries after the first Len(tie)
\* keep theirs)
SortByX(objs, tie) ==
    LET sorted == Ranked(objs, tie, Len(objs))
    IN  [i \in 1..Len(objs) |-> sorted[i][1]]

ppu_oam_scan(s) ==
    [s EXCEPT !.ppu.visible_objects = SortByX(Scan(s, 0, <<>>), s.rom.tie)]

(***************************************************************************)
(* The scanline renderer                                                   *)
(***************************************************************************)
\* (palette >> (color_number * 2)) & 0x03
Shade(palette, color_number) == (palette \div (4^color_number)) % 4

\* the registers the loop reads with ReadMem.  It reads them again for every
\* x; nothing writes them while the line is drawn, so every x reads the same
Registers(s) ==
    [LCDC |-> ReadMem(s, LCDC_REG), SCY |-> ReadMem(s, 65346),
     SCX |-> ReadMem(s, 65347), BGP |-> ReadMem(s, 65351),
     OBP0 |-> ReadMem(s, 65352), OBP1 |-> ReadMem(s, 65353),
     WY |-> ReadMem(s, 65354), WX |-> ReadMem(s, 65355)]

\* where the 16 bytes of a background or window tile start: LCDC bit 4 picks
\* the unsigned method from 0x8000 or the signed one around 0x9000
TileDataAddr(LCDC, tile_id) ==
    IF Bit(LCDC, 4) # 0 THEN 32768 + tile_id * 16
    ELSE W16(36864 + (IF tile_id >= 128 THEN tile_id - 256 ELSE tile_id) * 16)

\* (color_bit1 << 1) | color_bit0 of the two bytes of a tile row
ColorNumber(s, tile_row_addr, bit_index) ==
    2 * Bit(Stored(s, tile_row_addr + 1), bit_index)
        + Bit(Stored(s, tile_row_addr), bit_index)

\* the colour number at pixel (px, py) of the tile map LCDC bit map_bit picks
MapColorNumber(s, LCDC, map_bit, px, py) ==
    LET tile_map_addr == IF Bit(LCDC, map_bit) = 0 THEN 38912 ELSE 39936
        tile_id == Stored(s, tile_map_addr + (py \div 8) * 32 + px \div 8)
        tile_row_addr == W16(TileDataAddr(LCDC, tile_id) + (py % 8) * 2)
    IN  ColorNumber(s, tile_row_addr, 7 - (px % 8))

bg_color_number(s, r, x) ==
    MapColorNumber(s, r.LCDC, 3, W8(r.SCX + x), W8(r.SCY + s.ppu.ly))

\* window_enabled && ppu->ly >= WY && x >= (WX - 7)
WindowCovers(s, r, x) ==
    Bit(r.LCDC, 5) # 0 /\ s.ppu.ly >= r.WY /\ x >= r.WX - 7

w_color_number(s, r, x) ==
    MapColorNumber(s, r.LCDC, 6, W8(x - (r.WX - 7)), W8(s.ppu.ly - r.WY))

\* the colour number the sprite loop tests against the priority bit
underlying_color_number(s, r, x) ==
    IF WindowCovers(s, r, x) THEN w_color_number(s, r, x)
    ELSE bg_color_number(s, r, x)

\* x >= obj[1] - 8 && x < obj[1]
ObjCovers(obj, x) == x >= obj[2] - 8 /\ x < obj[2]

\* the colour number of the pixel of sprite obj at column x of line ly
obj_color_number(s, r, obj, x) ==
    LET line == s.ppu.ly - (obj[1] - 16)
        tile_id == IF Bit(r.LCDC, 2) # 0
                   THEN (IF line < 8 THEN obj[3] - (obj[3] % 2)
                         ELSE obj[3] - (obj[3] % 2) + 1)
                   ELSE obj[3]
        x_in_tile == IF Bit(obj[4], 5) # 0 THEN 7 - W8(x - (obj[2] - 8))
                     ELSE W8(x - (obj[2] - 8))
        y_in_tile == IF Bit(obj[4], 6) # 0 THEN 7 - (line % 8) ELSE line % 8
        tile_row_addr == 32768 + tile_id * 16 + (y_in_tile % 8) * 2
    IN  ColorNumber(s, tile_row_addr, 7 - (x_in_tile % 8))

\* (palette >> (obj_color_number * 2)) & 0x03 with OBP0 or OBP1 by bit 4
ObjShade(r, obj, color_number) ==
    Shade(IF Bit(obj[4], 4) = 0 THEN r.OBP0 ELSE r.OBP1, color_number)

RECURSIVE ObjLoop(_, _, _, _, _)
\* the loop over the visible sprites from the i-th on: a sprite that covers x
\* is skipped (continue) when its pixel is transparent or it has low priority
\* over a non-zero colour number, and ends the loop (break) otherwise
ObjLoop(s, r, x, i, color) ==
    IF i > Len(s.ppu.visible_objects) THEN color
    ELSE LET obj == s.ppu.visible_objects[i]
             n == obj_color_number(s, r, obj, x)
         IN  IF ~ObjCovers(obj, x) THEN ObjLoop(s, r, x, i + 1, color)
             ELSE IF n = 0 \/ (Bit(obj[4], 7) # 0
                               /\ underlying_color_number(s, r, x) # 0)
                  THEN ObjLoop(s, r, x, i + 1, color)
                  ELSE ObjShade(r, obj, n)

\* the body of the loop over x: the shade handed to the pixel callback
Pixel(s, r, x) ==
    LET color == Shade(r.BGP, underlying_color_number(s, r, x))
    IN  IF Bit(r.LCDC, 1) # 0 THEN ObjLoop(s, r, x, 1, color) ELSE color

RECURSIVE ScanlineLoopTwice(_, _, _, _)
\* a renderer that hands every pixel to the callback twice
ScanlineLoopTwice(s, r, lo, hi) ==
    IF lo = hi
    THEN << <<lo, s.ppu.ly, Pixel(s, r, lo)>>, <<lo, s.ppu.ly, Pixel(s, r, lo)>> >>
    ELSE ScanlineLoopTwice(s, r, lo, (lo + hi) \div 2)
            \o ScanlineLoopTwice(s, r, (lo + hi) \div 2 + 1, hi)

RECURSIVE ScanlineLoop(_, _, _, _)
\* for (x = lo; x <= hi; x++): the calls of process_frame_buffer in order, as
\* triples (x, y, color); the calls for the lower half of the span, then
\* those for the upper half
ScanlineLoop(s, r, lo, hi) ==
    IF lo = hi THEN << <<lo, s.ppu.ly, Pixel(s, r, lo)>> >>
    ELSE ScanlineLoop(s, r, lo, (lo + hi) \div 2)
            \o ScanlineLoop(s, r, (lo + hi) \div 2 + 1, hi)

\* the loop runs x from 0 to WINDOW_WIDTH - 1; the calls go to the record of
\* the pass
ppu_scanline(s) ==
    [s EXCEPT !.info.pixels = ScanlineLoop(s, Registers(s), 0, WINDOW_WIDTH - 1)]

LyNoWrap(s) == s

\* ly ran past line 153: back to line 0 and to the OAM scan of a new frame
LyWrap(s) ==
    LET STAT == s.memory[STAT_REG]
        s1 == [s EXCEPT !.ppu.ly = 0, !.memory[LY_REG] = 0]
        s2 == ppu_oam_scan(ppu_set_mode(s1, MODE_2_OAM_SCAN))
    IN  RaiseIfStat(s2, STAT, 32)

\* the end of a line of HBLANK on a PPU that enters VBLANK without requesting
\* the VBLANK interrupt
HblankEndQuiet(s) ==
    LET ly == W8(s.ppu.ly + 1)
        s1 == [s EXCEPT !.ppu.ly = ly, !.memory[LY_REG] = ly]
        s2 == IF ly = s1.memory[LYC_REG]
              THEN LET t == [s1 EXCEPT !.memory[STAT_REG] = Or8(@, 4)]
                   IN  RaiseIfStat(t, t.memory[STAT_REG], 64)
              ELSE [s1 EXCEPT !.memory[STAT_REG] = Clear8(@, 4)]
        STAT == s2.memory[STAT_REG]
    IN  IF ly = 144
        THEN RaiseIfStat(ppu_set_mode(s2, MODE_1_VBLANK), STAT, 16)
        ELSE RaiseIfStat(ppu_oam_scan(ppu_set_mode(s2, MODE_2_OAM_SCAN)), STAT, 32)

\* the end of a line of HBLANK: next line, coincidence flag, VBLANK or OAM scan
HblankEnd(s) ==
    LET ly == W8(s.ppu.ly + 1)
        s1 == [s EXCEPT !.ppu.ly = ly, !.memory[LY_REG] = ly]
        LYC == s1.memory[LYC_REG]
        s2 == IF ly = LYC
              THEN LET t == [s1 EXCEPT !.memory[STAT_REG] = Or8(@, 4)]
                   IN  RaiseIfStat(t, t.memory[STAT_REG], 64)
              ELSE [s1 EXCEPT !.memory[STAT_REG] = Clear8(@, 4)]
        STAT == s2.memory[STAT_REG]
    IN  IF ly = 144
        THEN RaiseIF(RaiseIfStat(ppu_set_mode(s2, MODE_1_VBLANK), STAT, 16), 1)
        ELSE RaiseIfStat(ppu_oam_scan(ppu_set_mode(s2, MODE_2_OAM_SCAN)), STAT, 32)

\* a PPU that starts every mode with an empty counter
ppu_stepNoCarry(s0, cycles) ==
    LET s == [s0 EXCEPT !.ppu.cycle_counter = @ + cycles]
        cc == s.ppu.cycle_counter
        STAT == s.memory[STAT_REG]
        minus(n) == [s EXCEPT !.ppu.cycle_counter = 0]
    IN  CASE s.ppu.mode = MODE_2_OAM_SCAN ->
               IF cc >= 80 THEN ppu_set_mode(minus(80), MODE_3_DRAWING) ELSE s
          [] s.ppu.mode = MODE_3_DRAWING ->
               IF cc >= 172
               THEN ppu_scanline(RaiseIfStat(ppu_set_mode(minus(172), MODE_0_HBLANK),
                                             STAT, 8))
               ELSE s
          [] s.ppu.mode = MODE_0_HBLANK ->
               IF cc >= 204 THEN HblankEnd(minus(204)) ELSE s
          [] s.ppu.mode = MODE_1_VBLANK ->
               IF cc >= 456
               THEN LET ly == W8(s.ppu.ly + 1)
                        t == [minus(456) EXCEPT !.ppu.ly = ly, !.memory[LY_REG] = ly]
                    IN  IF ly > 153 THEN LyWrap(t) ELSE t
               ELSE s

\* a PPU that leaves a mode only once the counter is past its length
ppu_stepLate(s0, cycles) ==
    LET s == [s0 EXCEPT !.ppu.cycle_counter = @ + cycles]
        cc == s.ppu.cycle_counter
        STAT == s.memory[STAT_REG]
        minus(n) == [s EXCEPT !.ppu.cycle_counter = cc - n]
    IN  CASE s.ppu.mode = MODE_2_OAM_SCAN ->
               IF cc > 80 THEN ppu_set_mode(minus(80), MODE_3_DRAWING) ELSE s
          [] s.ppu.mode = MODE_3_DRAWING ->
               IF cc > 172
               THEN ppu_scanline(RaiseIfStat(ppu_set_mode(minus(172), MODE_0_HBLANK),
                                             STAT, 8))
               ELSE s
          [] s.ppu.mode = MODE_0_HBLANK ->
               IF cc > 204 THEN HblankEnd(minus(204)) ELSE s
          [] s.ppu.mode = MODE_1_VBLANK ->
               IF cc > 456
               THEN LET ly == W8(s.ppu.ly + 1)
                        t == [minus(456) EXCEPT !.ppu.ly = ly, !.memory[LY_REG] = ly]
                    IN  IF ly > 153 THEN LyWrap(t) ELSE t
               ELSE s

ppu_step(s0, cycles) ==
    LET s == [s0 EXCEPT !.ppu.cycle_counter = @ + cycles]
        cc == s.ppu.cycle_counter
        STAT == s.memory[STAT_REG]
        minus(n) == [s EXCEPT !.ppu.cycle_counter = cc - n]
    IN  CASE s.ppu.mode = MODE_2_OAM_SCAN ->
               IF cc >= 80 THEN ppu_set_mode(minus(80), MODE_3_DRAWING) ELSE s
          [] s.ppu.mode = MODE_3_DRAWING ->
               IF cc >= 172
               THEN ppu_scanline(RaiseIfStat(ppu_set_mode(minus(172), MODE_0_HBLANK),
                                             STAT, 8))
               ELSE s
          [] s.ppu.mode = MODE_0_HBLANK ->
               IF cc >= 204 THEN HblankEnd(minus(204)) ELSE s
          [] s.ppu.mode = MODE_1_VBLANK ->
               IF cc >= 456
               THEN LET ly == W8(s.ppu.ly + 1)
                        t == [minus(456) EXCEPT !.ppu.ly = ly, !.memory[LY_REG] = ly]
                    IN  IF ly > 153 THEN LyWrap(t) ELSE t
               ELSE s

(***************************************************************************)
(* Timer                                                                   *)
(***************************************************************************)
\* if instead of while: at most one increment of TIMA per step
TimaOnce(s, threshold) ==
    IF s.timer.tima_cycle_counter >= threshold
    THEN IF s.memory[TIMA_REG] = 255
         THEN [s EXCEPT !.timer.tima_cycle_counter = @ - threshold,
                        !.memory[TIMA_REG] = s.memory[TMA_REG],
                        !.memory[IF_REG] = Or8(@, 4)]
         ELSE [s EXCEPT !.timer.tima_cycle_counter = @ - threshold,
                        !.memory[TIMA_REG] = @ + 1]
    ELSE s

RECURSIVE TimaLoop(_, _)
\* while (tima_cycle_counter >= threshold) { ... }
TimaLoop(s, threshold) ==
    IF s.timer.tima_cycle_counter >= threshold
    THEN LET tima == W8(s.memory[TIMA_REG] + 1)
             s1 == [s EXCEPT !.timer.tima_cycle_counter = @ - threshold,
                             !.memory[TIMA_REG] = tima]
             s2 == IF tima = 0
                   THEN RaiseIF([s1 EXCEPT !.memory[TIMA_REG] = s1.memory[TMA_REG]], 4)
                   ELSE s1
         IN  TimaLoop(s2, threshold)
    ELSE s

timer_step(s0, Tcycles) ==
    LET period == CLOCK_FREQ_HZ \div DIV_INC_FREQ_HZ
        s == [s0 EXCEPT !.timer.div_cycle_counter = @ + Tcycles,
                        !.timer.tima_cycle_counter = @ + Tcycles]
        s1 == IF s.timer.div_cycle_counter >= period
              THEN [s EXCEPT !.memory[DIV_REG] = W8(@ + s.timer.div_cycle_counter \div period),
                             !.timer.div_cycle_counter = @ % period]
              ELSE s
        TAC == s1.memory[TAC_REG]
        tima_inc_rate == CASE TAC % 4 = 0 -> 4096
                           [] TAC % 4 = 1 -> 262144
                           [] TAC % 4 = 2 -> 65536
                           [] TAC % 4 = 3 -> 16384
    IN  IF And8(TAC, 4) # 0 THEN TimaLoop(s1, CLOCK_FREQ_HZ \div tima_inc_rate) ELSE s1

(***************************************************************************)
(* What the handlers of cpu.c assign to AF.  af is cpu->AF when the        *)
(* handler is entered; n, value, sp and hl are what the handler has read   *)
(* from its operand (a register, a byte of memory or an immediate byte).   *)
(***************************************************************************)
Xor8(a, b) == a + b - 2 * And8(a, b)

\* if (cond) cpu->AF |= mask; else cpu->AF &= ~mask;
Flag(af, cond, mask) == IF cond THEN Or8(af, mask) ELSE Clear8(af, mask)

\* if (cond) cpu->AF |= mask;
Raise(af, cond, mask) == IF cond THEN Or8(af, mask) ELSE af

\* (value << 8) | (cpu->AF & 0x00FF)
A_keepF(af, value) == value * 256 + And8(af, 255)

\* (n << 8) | (cpu->AF & 0x00F0)
A_maskF(af, n) == n * 256 + And8(af, 240)

AfFromStackRaw(flags, a) == a * 256 + flags

\* (uint16_t)(a << 8) | (flags & 0xF0) of POP_AF
AfFromStack(flags, a) == a * 256 + And8(flags, 240)

LDI_A_HLmem_AF(af, value) == A_keepF(af, value)

LDD_A_HLmem_AF(af, value) == A_keepF(af, value)

LD_A_BCmem_AF(af, value) == A_keepF(af, value)

LD_A_DEmem_AF(af, value) == A_keepF(af, value)

LD_A_d16mem_AF(af, value) == A_keepF(af, value)

LD_A_Cmem_AF(af, value) == And8(af, 255) + value * 256

\* dest_id 7 of LD_r_r
LD_r_r_AF(af, n) == A_maskF(af, n)

\* an addition that never sets H
ADD_A_d8_AFNoHalf(af, n) ==
    LET result == Hi(af) + n
    IN  (result % 256) * 256 + (IF result % 256 = 0 THEN 128 ELSE 0)
            + (IF result > 255 THEN 16 ELSE 0)

\* flags reset, Z, H, C in turn, then the result into A
AddAF(af, n, c) ==
    LET a == Hi(af)
        flags(result) ==
            Flag(Flag(Flag(And8(af, 65280), result % 256 = 0, 128),
                      (a % 16) + (c % 16) + (n % 16) > 15, 32),
                 result > 255, 16)
        sum(result) == A_maskF(flags(result), result % 256)
    IN  sum(n + a + c)

ADD_A_r_AF(af, n) == AddAF(af, n, 0)

ADD_A_d8_AF(af, n) == AddAF(af, n, 0)

ADC_A_r_AF(af, n) == AddAF(af, n, Bit(af, 4))

ADC_A_d8_AF(af, n) == AddAF(af, n, Bit(af, 4))

\* flags reset, N set, Z, H, C in turn
SubFlags(af, n, c) ==
    LET a == Hi(af)
        flags(result) ==
            Flag(Flag(Flag(Or8(And8(af, 65280), 64), result % 256 = 0, 128),
                      (a % 16) < (n % 16) + c, 32),
                 a < n + c, 16)
    IN  flags((a - n - c) % 65536)

SubAF(af, n, c) == A_maskF(SubFlags(af, n, c), (Hi(af) - n - c) % 256)

SUB_A_r_AF(af, n) == SubAF(af, n, 0)

SUB_A_d8_AF(af, n) == SubAF(af, n, 0)

SBC_A_r_AF(af, n) == SubAF(af, n, Bit(af, 4))

SBC_A_d8_AF(af, n) == SubAF(af, n, Bit(af, 4))

\* CP sets the flags of SUB and leaves A
CP_A_r_AF(af, n) == SubFlags(af, n, 0)

CP_A_d8_AF(af, n) == SubFlags(af, n, 0)

\* flags reset, then preset (H for AND), Z, then the result into A
LogicAF(af, preset, result) ==
    A_maskF(Flag(Or8(And8(af, 65280), preset), result % 256 = 0, 128), result % 256)

AND_A_r_AF(af, n) == LogicAF(af, 32, And8(Hi(af), n))

AND_A_d8_AF(af, n) == LogicAF(af, 32, And8(Hi(af), n))

OR_A_r_AF(af, n) == LogicAF(af, 0, Or8(Hi(af), n))

OR_A_d8_AF(af, n) == LogicAF(af, 0, Or8(Hi(af), n))

XOR_A_r_AF(af, n) == LogicAF(af, 0, Xor8(Hi(af), n))

XOR_A_d8_AF(af, n) == LogicAF(af, 0, Xor8(Hi(af), n))

INC_r_AF(af, dest_id, value) ==
    LET done(f, result) == IF dest_id = 7 THEN A_maskF(f, result) ELSE f
        inc(result) ==
            done(Flag(Clear8(Flag(af, result = 0, 128), 64), value % 16 = 15, 32), result)
    IN  inc((value + 1) % 256)

DEC_r_AF(af, dest_id, value) ==
    LET done(f, result) == IF dest_id = 7 THEN A_maskF(f, result) ELSE f
        dec(result) ==
            done(Flag(Or8(Flag(af, result = 0, 128), 64), value % 16 = 0, 32), result)
    IN  dec((value - 1) % 256)

\* a DAA that corrects the low digit only when H is set
DAA_AFHalfOnly(af) ==
    LET a == Hi(af)
        n_flag == Bit(af, 6) = 1
        h_flag == Bit(af, 5) = 1
        c_flag == Bit(af, 4) = 1
        carried == c_flag \/ a > 153
        added == (IF carried THEN 96 ELSE 0) + (IF h_flag THEN 6 ELSE 0)
        taken == (IF c_flag THEN 96 ELSE 0) + (IF h_flag THEN 6 ELSE 0)
        done(a2, c2) ==
            A_keepF(Flag(Clear8(Flag(Flag(af, a2 = 0, 128), c2, 16), 32), n_flag, 64), a2)
    IN  IF ~n_flag THEN done((a + added) % 256, carried)
        ELSE done((a - taken) % 256, c_flag)

DAA_AF(af) ==
    LET a == Hi(af)
        n_flag == Bit(af, 6) = 1
        h_flag == Bit(af, 5) = 1
        c_flag == Bit(af, 4) = 1
        carried == c_flag \/ a > 153
        added == (IF carried THEN 96 ELSE 0) + (IF h_flag \/ a % 16 > 9 THEN 6 ELSE 0)
        taken == (IF c_flag THEN 96 ELSE 0) + (IF h_flag THEN 6 ELSE 0)
        done(a2, c2) ==
            A_keepF(Flag(Clear8(Flag(Flag(af, a2 = 0, 128), c2, 16), 32), n_flag, 64), a2)
    IN  IF ~n_flag THEN done((a + added) % 256, carried)
        ELSE done((a - taken) % 256, c_flag)

CPL_AF(af) == Or8(Or8(A_keepF(af, Xor8(Hi(af), 255)), 64), 32)

SCF_AF(af) == Clear8(Clear8(Or8(af, 16), 32), 64)

CCF_AF(af) == Clear8(Clear8(Xor8(af, 16), 32), 64)

\* n is the byte of the signed immediate
LD_HL_SPs8_AF(af, sp, n) ==
    Raise(Raise(And8(af, 65280), (sp % 16) + (n % 16) > 15, 32), (sp % 256) + (n % 256) > 255, 16)

ADD_SP_s8_AF(af, sp, n) ==
    Raise(Raise(And8(af, 65280), (sp % 16) + (n % 16) > 15, 32), (sp % 256) + (n % 256) > 255, 16)

ADD_HL_rr_AF(af, hl, n) ==
    Flag(Flag(Clear8(af, 64), hl + n > IE_REG, 16), (hl % 4096) + (n % 4096) > 4095, 32)

RLCA_AF(af) ==
    LET rot(old_a) ==
            IF old_a >= 128 THEN A_maskF(16, Or8((old_a * 2) % 256, 1))
            ELSE A_maskF(0, (old_a * 2) % 256)
    IN  rot(Hi(af))

RRCA_AF(af) ==
    LET rot(old_a) ==
            IF old_a % 2 = 1 THEN A_maskF(16, Or8(old_a \div 2, 128))
            ELSE A_maskF(0, old_a \div 2)
    IN  rot(Hi(af))

RLA_AF(af) ==
    LET done(f, new_a) ==
            A_keepF(f, IF Bit(af, 4) = 1 THEN Or8(new_a, 1) ELSE new_a)
        carry(f) == done(f, ((f * 2) \div 256) % 256)
        reset(f) == carry(Or8(f, And8(f, 32768) \div 2048))
    IN  reset(And8(af, 65280))

RRA_AF(af) ==
    LET done(f, new_a) ==
            A_keepF(f, IF Bit(af, 4) = 1 THEN Or8(new_a, 128) ELSE new_a)
        carry(f) == done(f, ((f \div 2) \div 256) % 256)
        reset(f) == carry(Or8(f, And8(f, 256) \div 16))
    IN  reset(And8(af, 65280))

\* the CB rotates and shifts: flags reset, C from the bit shifted out, Z from
\* the result, and the result into A when the operand is register A
CbAF(af, source_id, carry_out, value) ==
    LET done(f) == IF source_id = 7 THEN A_keepF(f, value) ELSE f
    IN  done(Raise(Raise(And8(af, 65280), carry_out, 16), value = 0, 128))

RLC_r_AF(af, source_id, value) ==
    CbAF(af, source_id, value >= 128,
         IF value >= 128 THEN Or8((value * 2) % 256, 1) ELSE (value * 2) % 256)

RRC_r_AF(af, source_id, value) ==
    CbAF(af, source_id, value % 2 = 1,
         IF value % 2 = 1 THEN Or8(value \div 2, 128) ELSE value \div 2)

RL_r_AF(af, source_id, value) ==
    CbAF(af, source_id, value >= 128,
         IF Bit(af, 4) = 1 THEN Or8((value * 2) % 256, 1) ELSE (value * 2) % 256)

RR_r_AF(af, source_id, value) ==
    CbAF(af, source_id, value % 2 = 1,
         IF Bit(af, 4) = 1 THEN Or8(value \div 2, 128) ELSE value \div 2)

SLA_r_AF(af, source_id, value) == CbAF(af, source_id, value >= 128, (value * 2) % 256)

SRA_r_AF(af, source_id, value) ==
    CbAF(af, source_id, value % 2 = 1, Or8(value \div 2, And8(value, 128)))

SRL_r_AF(af, source_id, value) == CbAF(af, source_id, value % 2 = 1, value \div 2)

SWAP_r_AF(af, source_id, value) ==
    CbAF(af, source_id, FALSE, Or8((value % 16) * 16, value \div 16))

BIT_n_r_AF(af, n, value) == Flag(Or8(Clear8(af, 64), 32), Bit(value, n) = 0, 128)

SET_n_r_AF(af, source_id, n, value) ==
    IF source_id = 7 THEN A_keepF(af, Or8(value, 2^n)) ELSE af

RES_n_r_AF(af, source_id, n, value) ==
    IF source_id = 7 THEN A_keepF(af, Clear8(value, 2^n)) ELSE af

(***************************************************************************)
(* Instruction handlers                                                    *)
(***************************************************************************)
A_(s) == Hi(s.cpu.AF)

\* ReadMem(cpu->PC - 1): the handler reads its own opcode again
Reread(s) == ReadMem(s, W16(s.cpu.PC + 65535))

RereadOk(s) ==
    LET a == W16(s.cpu.PC + 65535) IN a \in Addrs \/ InWindow(s.rom, a)

\* a NOP that takes no time
NOPFree(s) == Ret(s, 0)

NOP(s) == Ret(s, 4)

LD_r_d8(s) ==
    LET load(opcode, t, d8) ==
            Ret(CASE opcode = 6 -> [t EXCEPT !.cpu.BC = d8 * 256 + Lo(@)]
                  [] opcode = 14 -> [t EXCEPT !.cpu.BC = Hi(@) * 256 + d8]
                  [] opcode = 22 -> [t EXCEPT !.cpu.DE = d8 * 256 + Lo(@)]
                  [] opcode = 30 -> [t EXCEPT !.cpu.DE = Hi(@) * 256 + d8]
                  [] opcode = 38 -> [t EXCEPT !.cpu.HL = d8 * 256 + Lo(@)]
                  [] opcode = 46 -> [t EXCEPT !.cpu.HL = Hi(@) * 256 + d8]
                  [] opcode = 54 -> WriteMem(t, t.cpu.HL, d8)
                  [] opcode = 62 -> [t EXCEPT !.cpu.AF = A_maskF(@, d8)]
                  [] OTHER -> t,
                IF opcode = 54 THEN 12 ELSE 8)
        fetched(opcode, f) == load(opcode, f.s, f.v)
    IN  fetched(Reread(s), FetchByte(Chk(s, RereadOk(s))))

LD_a8_A(s) ==
    LET store(f) == Ret(WriteMem(f.s, 65280 + f.v, A_(f.s)), 12)
    IN  store(FetchByte(s))

LD_A_a8(s) ==
    LET load(t, n) ==
            Ret([Chk(t, Known(t, 65280 + n))
                   EXCEPT !.cpu.AF = A_maskF(@, ReadMem(t, 65280 + n))], 12)
        fetched(f) == load(f.s, f.v)
    IN  fetched(FetchByte(s))

LD_d16mem_A(s) ==
    LET store(f) == Ret(WriteMem(f.s, f.v, A_(f.s)), 16)
    IN  store(FetchWord(s))

LD_A_d16mem(s) ==
    LET load(t, addr) ==
            Ret([Chk(t, Readable(t, addr))
                   EXCEPT !.cpu.AF = LD_A_d16mem_AF(@, ReadMem(t, addr))], 16)
        fetched(f) == load(f.s, f.v)
    IN  fetched(FetchWord(s))

LD_BC_d16(s) ==
    LET load(f) == Ret([f.s EXCEPT !.cpu.BC = f.v], 12) IN load(FetchWord(s))

LD_DE_d16(s) ==
    LET load(f) == Ret([f.s EXCEPT !.cpu.DE = f.v], 12) IN load(FetchWord(s))

LD_HL_d16(s) ==
    LET load(f) == Ret([f.s EXCEPT !.cpu.HL = f.v], 12) IN load(FetchWord(s))

LD_SP_d16(s) ==
    LET load(f) == Ret([f.s EXCEPT !.cpu.SP = f.v], 12) IN load(FetchWord(s))

Push2LowFirst(s, high, low) ==
    LET second(t, sp) == WriteMem([t EXCEPT !.cpu.SP = sp], sp, high)
        first(sp) == WriteMem([s EXCEPT !.cpu.SP = sp], sp, low)
    IN  second(first(W16(s.cpu.SP + 65535)), W16(s.cpu.SP + 65534))

\* WriteMem(--cpu->SP, high); WriteMem(--cpu->SP, low)
Push2(s, high, low) ==
    LET second(t, sp) == WriteMem([t EXCEPT !.cpu.SP = sp], sp, low)
        first(sp) == WriteMem([s EXCEPT !.cpu.SP = sp], sp, high)
    IN  second(first(W16(s.cpu.SP + 65535)), W16(s.cpu.SP + 65534))

PUSH_BC(s) == Ret(Push2(s, Hi(s.cpu.BC), Lo(s.cpu.BC)), 16)

PUSH_DE(s) == Ret(Push2(s, Hi(s.cpu.DE), Lo(s.cpu.DE)), 16)

PUSH_HL(s) == Ret(Push2(s, Hi(s.cpu.HL), Lo(s.cpu.HL)), 16)

PUSH_AF(s) == Ret(Push2(s, Hi(s.cpu.AF), And8(Lo(s.cpu.AF), 240)), 16)

\* ReadMem(cpu->SP++) twice: the low byte, then the high byte
Pop2(s) ==
    [s |-> [Chk(s, Readable(s, s.cpu.SP) /\ Readable(s, W16(s.cpu.SP + 1)))
              EXCEPT !.cpu.SP = W16(@ + 2)],
     low |-> ReadMem(s, s.cpu.SP),
     high |-> ReadMem(s, W16(s.cpu.SP + 1))]

POP_BC(s) ==
    LET pop(p) == Ret([p.s EXCEPT !.cpu.BC = p.high * 256 + p.low], 12) IN pop(Pop2(s))

POP_DE(s) ==
    LET pop(p) == Ret([p.s EXCEPT !.cpu.DE = p.high * 256 + p.low], 12) IN pop(Pop2(s))

POP_HL(s) ==
    LET pop(p) == Ret([p.s EXCEPT !.cpu.HL = p.high * 256 + p.low], 12) IN pop(Pop2(s))

POP_AF(s) ==
    LET pop(t, flags, a) == Ret([t EXCEPT !.cpu.AF = AfFromStack(flags, a)], 12)
        popped(p) == pop(p.s, p.low, p.high)
    IN  popped(Pop2(s))

JP_d16(s) ==
    LET jump(f) == Ret([f.s EXCEPT !.cpu.PC = f.v], 16) IN jump(FetchWord(s))

JR_d8(s) ==
    LET jump(t, offset) == Ret([t EXCEPT !.cpu.PC = W16(@ + 65536 + offset)], 12)
        fetched(f) == jump(f.s, IF f.v >= 128 THEN f.v - 256 ELSE f.v)
    IN  fetched(FetchByte(s))

RST(s) ==
    LET call(opcode) ==
            [PushPC(Chk(s, RereadOk(s))) EXCEPT
               !.cpu.PC = CASE opcode = 199 -> 0
                            [] opcode = 207 -> 8
                            [] opcode = 215 -> 16
                            [] opcode = 223 -> 24
                            [] opcode = 231 -> 32
                            [] opcode = 239 -> 40
                            [] opcode = 247 -> 48
                            [] opcode = 255 -> 56
                            [] OTHER -> s.rom.junk]
    IN  Ret(call(Reread(s)), 16)

\* the second switch of LD_r_r and INC_r: n into the register dest_id or
\* into the byte at HL
SetReg8(s, dest_id, n) ==
    CASE dest_id = 0 -> [s EXCEPT !.cpu.BC = n * 256 + Lo(@)]
      [] dest_id = 1 -> [s EXCEPT !.cpu.BC = Hi(@) * 256 + n]
      [] dest_id = 2 -> [s EXCEPT !.cpu.DE = n * 256 + Lo(@)]
      [] dest_id = 3 -> [s EXCEPT !.cpu.DE = Hi(@) * 256 + n]
      [] dest_id = 4 -> [s EXCEPT !.cpu.HL = n * 256 + Lo(@)]
      [] dest_id = 5 -> [s EXCEPT !.cpu.HL = Hi(@) * 256 + n]
      [] dest_id = 6 -> WriteMem(s, s.cpu.HL, n)
      [] OTHER -> [s EXCEPT !.cpu.AF = A_maskF(@, n)]

\* the switch of an 8-bit arithmetic handler whose eight opcodes start at
\* first, on the opcode the handler has read again: n is a register or the
\* byte at HL, and stays uninitialised when no case matches
Switch8(s, opcode, first) ==
    CASE opcode = first -> Hi(s.cpu.BC)
      [] opcode = first + 1 -> Lo(s.cpu.BC)
      [] opcode = first + 2 -> Hi(s.cpu.DE)
      [] opcode = first + 3 -> Lo(s.cpu.DE)
      [] opcode = first + 4 -> Hi(s.cpu.HL)
      [] opcode = first + 5 -> Lo(s.cpu.HL)
      [] opcode = first + 6 -> ReadMem(s, s.cpu.HL)
      [] opcode = first + 7 -> Hi(s.cpu.AF)
      [] OTHER -> s.rom.junk

\* the model holds the bytes the handler reads: its opcode and the byte at HL
SwitchOk(s, opcode, first) ==
    Chk(s, RereadOk(s) /\ (opcode = first + 6 => Readable(s, s.cpu.HL)))

ADD_A_r(s) ==
    LET add(opcode) ==
            Ret([SwitchOk(s, opcode, 128)
                   EXCEPT !.cpu.AF = ADD_A_r_AF(@, Switch8(s, opcode, 128))],
                IF opcode = 134 THEN 8 ELSE 4)
    IN  add(Reread(s))

ADD_A_d8(s) ==
    LET add(f) == Ret([f.s EXCEPT !.cpu.AF = ADD_A_d8_AF(@, f.v)], 8)
    IN  add(FetchByte(s))

ADC_A_r(s) ==
    LET adc(opcode) ==
            Ret([SwitchOk(s, opcode, 136)
                   EXCEPT !.cpu.AF = ADC_A_r_AF(@, Switch8(s, opcode, 136))],
                IF opcode = 142 THEN 8 ELSE 4)
    IN  adc(Reread(s))

ADC_A_d8(s) ==
    LET adc(f) == Ret([f.s EXCEPT !.cpu.AF = ADC_A_d8_AF(@, f.v)], 8)
    IN  adc(FetchByte(s))

SUB_A_r(s) ==
    LET sub(opcode) ==
            Ret([SwitchOk(s, opcode, 144)
                   EXCEPT !.cpu.AF = SUB_A_r_AF(@, Switch8(s, opcode, 144))],
                IF opcode = 150 THEN 8 ELSE 4)
    IN  sub(Reread(s))

SUB_A_d8(s) ==
    LET sub(f) == Ret([f.s EXCEPT !.cpu.AF = SUB_A_d8_AF(@, f.v)], 8)
    IN  sub(FetchByte(s))

SBC_A_r(s) ==
    LET sbc(opcode) ==
            Ret([SwitchOk(s, opcode, 152)
                   EXCEPT !.cpu.AF = SBC_A_r_AF(@, Switch8(s, opcode, 152))],
                IF opcode = 158 THEN 8 ELSE 4)
    IN  sbc(Reread(s))

SBC_A_d8(s) ==
    LET sbc(f) == Ret([f.s EXCEPT !.cpu.AF = SBC_A_d8_AF(@, f.v)], 8)
    IN  sbc(FetchByte(s))

CP_A_r(s) ==
    LET cp(opcode) ==
            Ret([SwitchOk(s, opcode, 184)
                   EXCEPT !.cpu.AF = CP_A_r_AF(@, Switch8(s, opcode, 184))],
                IF opcode = 190 THEN 8 ELSE 4)
    IN  cp(Reread(s))

CP_A_d8(s) ==
    LET cp(f) == Ret([f.s EXCEPT !.cpu.AF = CP_A_d8_AF(@, f.v)], 8)
    IN  cp(FetchByte(s))

DAA(s) == Ret([s EXCEPT !.cpu.AF = DAA_AF(@)], 4)

\* source_id and dest_id are bits 0..2 and 3..5 of the opcode read again
LD_r_r(s) ==
    LET load(source_id, dest_id) ==
            Ret(SetReg8(SwitchOk(s, source_id, 0), dest_id, Switch8(s, source_id, 0)),
                IF source_id = 6 \/ dest_id = 6 THEN 8 ELSE 4)
        decode(opcode) == load(opcode % 8, (opcode \div 8) % 8)
    IN  decode(Reread(s))

INC_r(s) ==
    LET store(t, dest_id, result) ==
            Ret(IF dest_id = 7 THEN t ELSE SetReg8(t, dest_id, result),
                IF dest_id = 6 THEN 12 ELSE 4)
        inc(dest_id, value) ==
            store([SwitchOk(s, dest_id, 0) EXCEPT !.cpu.AF = INC_r_AF(@, dest_id, value)],
                  dest_id, (value + 1) % 256)
        decode(dest_id) == inc(dest_id, Switch8(s, dest_id, 0))
    IN  decode((Reread(s) \div 8) % 8)

\* n is BC, DE, HL or SP, and stays uninitialised when no case matches
ADD_HL_rr(s) ==
    LET add(n) ==
            Ret([Chk(s, RereadOk(s))
                   EXCEPT !.cpu.AF = ADD_HL_rr_AF(@, s.cpu.HL, n),
                          !.cpu.HL = W16(s.cpu.HL + n)], 8)
        switch(opcode) ==
            add(CASE opcode = 9 -> s.cpu.BC
                  [] opcode = 25 -> s.cpu.DE
                  [] opcode = 41 -> s.cpu.HL
                  [] opcode = 57 -> s.cpu.SP
                  [] OTHER -> s.rom.junk)
    IN  switch(Reread(s))

\* a HALT without the HALT bug: it halts when nothing is pending and is a
\* NOP otherwise
HALTWithoutBug(s) ==
    IF And8(s.memory[IE_REG], s.memory[IF_REG]) = 0
    THEN Ret([s EXCEPT !.cpu.halted = TRUE], 4)
    ELSE Ret(s, 4)

HALT(s) ==
    LET halt(pending) ==
            IF ~s.cpu.IME /\ pending # 0
            THEN Ret([s EXCEPT !.cpu.halt_bug = TRUE], 4)
            ELSE IF pending = 0
                 THEN Ret([s EXCEPT !.cpu.halted = TRUE], 4)
                 ELSE Ret(s, 4)
    IN  halt(And8(s.memory[IE_REG], s.memory[IF_REG]))

DI(s) == Ret([s EXCEPT !.cpu.IME = FALSE], 4)

EI(s) == Ret([s EXCEPT !.cpu.IME = TRUE], 4)

\* the handlers InitializeInstructionTable registers for the opcodes the
\* programs of this model are made of
instruction_table(s, opcode) ==
    CASE opcode = 0 -> NOP(s)
      [] opcode = 1 -> LD_BC_d16(s)
      [] opcode = 17 -> LD_DE_d16(s)
      [] opcode = 33 -> LD_HL_d16(s)
      [] opcode = 49 -> LD_SP_d16(s)
      [] opcode \in {6, 14, 22, 30, 38, 46, 54, 62} -> LD_r_d8(s)
      [] opcode = 24 -> JR_d8(s)
      [] opcode = 118 -> HALT(s)
      [] opcode = 195 -> JP_d16(s)
      [] opcode = 197 -> PUSH_BC(s)
      [] opcode = 213 -> PUSH_DE(s)
      [] opcode = 229 -> PUSH_HL(s)
      [] opcode = 245 -> PUSH_AF(s)
      [] opcode = 193 -> POP_BC(s)
      [] opcode = 209 -> POP_DE(s)
      [] opcode = 225 -> POP_HL(s)
      [] opcode = 241 -> POP_AF(s)
      [] opcode = 224 -> LD_a8_A(s)
      [] opcode = 240 -> LD_A_a8(s)
      [] opcode = 234 -> LD_d16mem_A(s)
      [] opcode = 250 -> LD_A_d16mem(s)
      [] opcode = 243 -> DI(s)
      [] opcode = 251 -> EI(s)
      [] opcode \in {199, 207, 215, 223, 231, 239, 247, 255} -> RST(s)
      [] OTHER -> Chk(Ret(s, 0), FALSE)

\* the handlers it registers for the opcodes of the arithmetic and decoding
\* programs, with the ones above
arithmetic_table(s, opcode) ==
    CASE opcode \in {9, 25, 41, 57} -> ADD_HL_rr(s)
      [] opcode \in {4, 12, 20, 28, 36, 44, 52, 60} -> INC_r(s)
      [] opcode >= 64 /\ opcode <= 127 /\ opcode # 118 -> LD_r_r(s)
      [] opcode = 39 -> DAA(s)
      [] opcode \in 128..135 -> ADD_A_r(s)
      [] opcode \in 136..143 -> ADC_A_r(s)
      [] opcode \in 144..151 -> SUB_A_r(s)
      [] opcode \in 152..159 -> SBC_A_r(s)
      [] opcode \in 184..191 -> CP_A_r(s)
      [] opcode = 198 -> ADD_A_d8(s)
      [] opcode = 206 -> ADC_A_d8(s)
      [] opcode = 214 -> SUB_A_d8(s)
      [] opcode = 222 -> SBC_A_d8(s)
      [] opcode = 254 -> CP_A_d8(s)
      [] OTHER -> instruction_table(s, opcode)

(***************************************************************************)
(* The other handlers of the instruction table                            *)
(***************************************************************************)
LD_BCmem_A(s) == Ret(WriteMem(s, s.cpu.BC, A_(s)), 8)

LD_DEmem_A(s) == Ret(WriteMem(s, s.cpu.DE, A_(s)), 8)

LDI_HLmem_A(s) ==
    Ret([WriteMem(s, s.cpu.HL, A_(s)) EXCEPT !.cpu.HL = W16(@ + 1)], 8)

LDD_HLmem_A(s) ==
    Ret([WriteMem(s, s.cpu.HL, A_(s)) EXCEPT !.cpu.HL = W16(@ + 65535)], 8)

LDI_A_HLmem(s) ==
    Ret([Chk(s, Readable(s, s.cpu.HL))
           EXCEPT !.cpu.AF = LDI_A_HLmem_AF(@, ReadMem(s, s.cpu.HL)),
                  !.cpu.HL = W16(@ + 1)], 8)

LDD_A_HLmem(s) ==
    Ret([Chk(s, Readable(s, s.cpu.HL))
           EXCEPT !.cpu.AF = LDD_A_HLmem_AF(@, ReadMem(s, s.cpu.HL)),
                  !.cpu.HL = W16(@ + 65535)], 8)

LD_A_BCmem(s) ==
    Ret([Chk(s, Readable(s, s.cpu.BC))
           EXCEPT !.cpu.AF = LD_A_BCmem_AF(@, ReadMem(s, s.cpu.BC))], 8)

LD_A_DEmem(s) ==
    Ret([Chk(s, Readable(s, s.cpu.DE))
           EXCEPT !.cpu.AF = LD_A_DEmem_AF(@, ReadMem(s, s.cpu.DE))], 8)

LD_d16mem_SP(s) ==
    LET store(t, addr) ==
            Ret(WriteMem(WriteMem(t, addr, Lo(t.cpu.SP)), W16(addr + 1), Hi(t.cpu.SP)),
                20)
        fetched(f) == store(f.s, f.v)
    IN  fetched(FetchWord(s))

LD_A_Cmem(s) ==
    LET load(port) ==
            Ret([Chk(s, Known(s, port))
                   EXCEPT !.cpu.AF = LD_A_Cmem_AF(@, ReadMem(s, port))], 8)
    IN  load(65280 + Lo(s.cpu.BC))

LD_Cmem_A(s) == Ret(WriteMem(s, 65280 + Lo(s.cpu.BC), A_(s)), 8)

AND_A_r(s) ==
    LET and(opcode) ==
            Ret([SwitchOk(s, opcode, 160)
                   EXCEPT !.cpu.AF = AND_A_r_AF(@, Switch8(s, opcode, 160))],
                IF opcode = 166 THEN 8 ELSE 4)
    IN  and(Reread(s))

AND_A_d8(s) ==
    LET and(f) == Ret([f.s EXCEPT !.cpu.AF = AND_A_d8_AF(@, f.v)], 8)
    IN  and(FetchByte(s))

OR_A_r(s) ==
    LET or(opcode) ==
            Ret([SwitchOk(s, opcode, 176)
                   EXCEPT !.cpu.AF = OR_A_r_AF(@, Switch8(s, opcode, 176))],
                IF opcode = 182 THEN 8 ELSE 4)
    IN  or(Reread(s))

OR_A_d8(s) ==
    LET or(f) == Ret([f.s EXCEPT !.cpu.AF = OR_A_d8_AF(@, f.v)], 8)
    IN  or(FetchByte(s))

XOR_A_r(s) ==
    LET xor(opcode) ==
            Ret([SwitchOk(s, opcode, 168)
                   EXCEPT !.cpu.AF = XOR_A_r_AF(@, Switch8(s, opcode, 168))],
                IF opcode = 174 THEN 8 ELSE 4)
    IN  xor(Reread(s))

XOR_A_d8(s) ==
    LET xor(f) == Ret([f.s EXCEPT !.cpu.AF = XOR_A_d8_AF(@, f.v)], 8)
    IN  xor(FetchByte(s))

DEC_r(s) ==
    LET store(t, dest_id, result) ==
            Ret(IF dest_id = 7 THEN t ELSE SetReg8(t, dest_id, result),
                IF dest_id = 6 THEN 12 ELSE 4)
        dec(dest_id, value) ==
            store([SwitchOk(s, dest_id, 0) EXCEPT !.cpu.AF = DEC_r_AF(@, dest_id, value)],
                  dest_id, (value + 255) % 256)
        decode(dest_id) == dec(dest_id, Switch8(s, dest_id, 0))
    IN  decode((Reread(s) \div 8) % 8)

CPL(s) == Ret([s EXCEPT !.cpu.AF = CPL_AF(@)], 4)

SCF(s) == Ret([s EXCEPT !.cpu.AF = SCF_AF(@)], 4)

CCF(s) == Ret([s EXCEPT !.cpu.AF = CCF_AF(@)], 4)

LD_SP_HL(s) == Ret([s EXCEPT !.cpu.SP = s.cpu.HL], 8)

\* n is the immediate byte, taken as a signed offset for the sum
Signed8(n) == IF n >= 128 THEN n - 256 ELSE n

LD_HL_SPs8(s) ==
    LET load(t, n) ==
            Ret([t EXCEPT !.cpu.AF = LD_HL_SPs8_AF(@, t.cpu.SP, n),
                          !.cpu.HL = W16(t.cpu.SP + 65536 + Signed8(n))], 12)
        fetched(f) == load(f.s, f.v)
    IN  fetched(FetchByte(s))

ADD_SP_s8(s) ==
    LET add(t, n) ==
            Ret([t EXCEPT !.cpu.AF = ADD_SP_s8_AF(@, t.cpu.SP, n),
                          !.cpu.SP = W16(@ + 65536 + Signed8(n))], 16)
        fetched(f) == add(f.s, f.v)
    IN  fetched(FetchByte(s))

\* no register changes when no case matches the opcode read again
INC_rr(s) ==
    LET inc(t, opcode) ==
            CASE opcode = 3 -> [t EXCEPT !.cpu.BC = W16(@ + 1)]
              [] opcode = 19 -> [t EXCEPT !.cpu.DE = W16(@ + 1)]
              [] opcode = 35 -> [t EXCEPT !.cpu.HL = W16(@ + 1)]
              [] opcode = 51 -> [t EXCEPT !.cpu.SP = W16(@ + 1)]
              [] OTHER -> t
    IN  Ret(inc(Chk(s, RereadOk(s)), Reread(s)), 8)

DEC_rr(s) ==
    LET dec(t, opcode) ==
            CASE opcode = 11 -> [t EXCEPT !.cpu.BC = W16(@ + 65535)]
              [] opcode = 27 -> [t EXCEPT !.cpu.DE = W16(@ + 65535)]
              [] opcode = 43 -> [t EXCEPT !.cpu.HL = W16(@ + 65535)]
              [] opcode = 59 -> [t EXCEPT !.cpu.SP = W16(@ + 65535)]
              [] OTHER -> t
    IN  Ret(dec(Chk(s, RereadOk(s)), Reread(s)), 8)

JP_HL(s) == Ret([s EXCEPT !.cpu.PC = s.cpu.HL], 4)

\* the flags Z and C a conditional handler tests
FlagZ(s) == Bit(s.cpu.AF, 7) = 1

FlagC(s) == Bit(s.cpu.AF, 4) = 1

\* JP cc,d16: the address is fetched whether the jump is taken or not
JP_cc_d16(s, taken) ==
    LET jump(f) == IF taken THEN Ret([f.s EXCEPT !.cpu.PC = f.v], 16) ELSE Ret(f.s, 12)
    IN  jump(FetchWord(s))

JP_NZ_d16(s) == JP_cc_d16(s, ~FlagZ(s))

JP_NC_d16(s) == JP_cc_d16(s, ~FlagC(s))

JP_Z_d16(s) == JP_cc_d16(s, FlagZ(s))

JP_C_d16(s) == JP_cc_d16(s, FlagC(s))

JR_cc_d8(s, taken) ==
    LET jump(t, offset) ==
            IF taken THEN Ret([t EXCEPT !.cpu.PC = W16(@ + 65536 + offset)], 12)
            ELSE Ret(t, 8)
        fetched(f) == jump(f.s, Signed8(f.v))
    IN  fetched(FetchByte(s))

JR_NZ_d8(s) == JR_cc_d8(s, ~FlagZ(s))

JR_NC_d8(s) == JR_cc_d8(s, ~FlagC(s))

JR_Z_d8(s) == JR_cc_d8(s, FlagZ(s))

JR_C_d8(s) == JR_cc_d8(s, FlagC(s))

CALL(s) ==
    LET call(f) == Ret([PushPC(f.s) EXCEPT !.cpu.PC = f.v], 24) IN call(FetchWord(s))

CALL_cc(s, taken) ==
    LET call(f) ==
            IF taken THEN Ret([PushPC(f.s) EXCEPT !.cpu.PC = f.v], 24) ELSE Ret(f.s, 12)
    IN  call(FetchWord(s))

CALL_NZ(s) == CALL_cc(s, ~FlagZ(s))

CALL_Z(s) == CALL_cc(s, FlagZ(s))

CALL_NC(s) == CALL_cc(s, ~FlagC(s))

CALL_C(s) == CALL_cc(s, FlagC(s))

RET(s) ==
    LET ret(p) == Ret([p.s EXCEPT !.cpu.PC = p.high * 256 + p.low], 16) IN ret(Pop2(s))

RETI(s) == Ret([RET(s) EXCEPT !.cpu.IME = TRUE], 16)

RET_cc(s, taken) == IF taken THEN Ret(RET(s), 20) ELSE Ret(s, 8)

RET_NZ(s) == RET_cc(s, ~FlagZ(s))

RET_Z(s) == RET_cc(s, FlagZ(s))

RET_NC(s) == RET_cc(s, ~FlagC(s))

RET_C(s) == RET_cc(s, FlagC(s))

\* STOP fetches its second byte, resets DIV and halts the CPU
STOP(s) ==
    LET stop(f) ==
            Ret([f.s EXCEPT !.memory[DIV_REG] = 0,
                            !.timer.div_cycle_counter = 0,
                            !.cpu.halted = TRUE], 4)
    IN  stop(FetchByte(s))

RLCA(s) == Ret([s EXCEPT !.cpu.AF = RLCA_AF(@)], 4)

RLA(s) == Ret([s EXCEPT !.cpu.AF = RLA_AF(@)], 4)

RRCA(s) == Ret([s EXCEPT !.cpu.AF = RRCA_AF(@)], 4)

RRA(s) == Ret([s EXCEPT !.cpu.AF = RRA_AF(@)], 4)

\* the handler InitializeInstructionTable fills both tables with before it
\* registers the others; no entry of either table is left with it
UNKNOWN(s) == Ret([Chk(s, RereadOk(s)) EXCEPT !.cpu.running = FALSE], 0)

(***************************************************************************)
(* The handlers of the CB table                                            *)
(***************************************************************************)
\* a CB handler that writes its operand back: source_id is bits 0..2 of the
\* opcode read again, t the machine with the flags the handler has set and
\* value the byte it stores, in A with the flags kept
CbStore(t, source_id, value) ==
    Ret(IF source_id = 7 THEN [t EXCEPT !.cpu.AF = A_keepF(@, value)]
        ELSE SetReg8(t, source_id, value),
        IF source_id = 6 THEN 16 ELSE 8)

\* the flags of a rotate or shift: all reset, C from the bit shifted out, Z
\* from the result
CbFlags(s, source_id, carry_out, value) ==
    CbStore([SwitchOk(s, source_id, 0)
               EXCEPT !.cpu.AF = Raise(Raise(And8(@, 65280), carry_out, 16), value = 0, 128)],
            source_id, value)

RLC_r(s) ==
    LET rlc(source_id, value) ==
            CbFlags(s, source_id, value >= 128,
                    IF value >= 128 THEN Or8((value * 2) % 256, 1) ELSE (value * 2) % 256)
        decode(source_id) == rlc(source_id, Switch8(s, source_id, 0))
    IN  decode(Reread(s) % 8)

RRC_r(s) ==
    LET rrc(source_id, value) ==
            CbFlags(s, source_id, value % 2 = 1,
                    IF value % 2 = 1 THEN Or8(value \div 2, 128) ELSE value \div 2)
        decode(source_id) == rrc(source_id, Switch8(s, source_id, 0))
    IN  decode(Reread(s) % 8)

RL_r(s) ==
    LET rl(source_id, value) ==
            CbFlags(s, source_id, value >= 128,
                    IF FlagC(s) THEN Or8((value * 2) % 256, 1) ELSE (value * 2) % 256)
        decode(source_id) == rl(source_id, Switch8(s, source_id, 0))
    IN  decode(Reread(s) % 8)

RR_r(s) ==
    LET rr(source_id, value) ==
            CbFlags(s, source_id, value % 2 = 1,
                    IF FlagC(s) THEN Or8(value \div 2, 128) ELSE value \div 2)
        decode(source_id) == rr(source_id, Switch8(s, source_id, 0))
    IN  decode(Reread(s) % 8)

SLA_r(s) ==
    LET sla(source_id, value) ==
            CbFlags(s, source_id, value >= 128, (value * 2) % 256)
        decode(source_id) == sla(source_id, Switch8(s, source_id, 0))
    IN  decode(Reread(s) % 8)

SRA_r(s) ==
    LET sra(source_id, value) ==
            CbFlags(s, source_id, value % 2 = 1, Or8(value \div 2, And8(value, 128)))
        decode(source_id) == sra(source_id, Switch8(s, source_id, 0))
    IN  decode(Reread(s) % 8)

SRL_r(s) ==
    LET srl(source_id, value) == CbFlags(s, source_id, value % 2 = 1, value \div 2)
        decode(source_id) == srl(source_id, Switch8(s, source_id, 0))
    IN  decode(Reread(s) % 8)

SWAP_r(s) ==
    LET swap(source_id, value) ==
            CbFlags(s, source_id, FALSE, Or8((value % 16) * 16, value \div 16))
        decode(source_id) == swap(source_id, Switch8(s, source_id, 0))
    IN  decode(Reread(s) % 8)

BIT_n_r(s) ==
    LET bit(source_id, n, value) ==
            Ret([SwitchOk(s, source_id, 0) EXCEPT !.cpu.AF = BIT_n_r_AF(@, n, value)],
                IF source_id = 6 THEN 12 ELSE 8)
        decode(opcode) == bit(opcode % 8, (opcode \div 8) % 8, Switch8(s, opcode % 8, 0))
    IN  decode(Reread(s))

SET_n_r(s) ==
    LET set(source_id, n, value) ==
            CbStore(SwitchOk(s, source_id, 0), source_id, Or8(value, 2^n))
        decode(opcode) == set(opcode % 8, (opcode \div 8) % 8, Switch8(s, opcode % 8, 0))
    IN  decode(Reread(s))

RES_n_r(s) ==
    LET res(source_id, n, value) ==
            CbStore(SwitchOk(s, source_id, 0), source_id, Clear8(value, 2^n))
        decode(opcode) == res(opcode % 8, (opcode \div 8) % 8, Switch8(s, opcode % 8, 0))
    IN  decode(Reread(s))

\* the handlers InitializeInstructionTable registers in cb_instruction_table
cb_instruction_table(s, opcode) ==
    CASE opcode < 8 -> RLC_r(s)
      [] opcode < 16 -> RRC_r(s)
      [] opcode < 24 -> RL_r(s)
      [] opcode < 32 -> RR_r(s)
      [] opcode < 40 -> SLA_r(s)
      [] opcode < 48 -> SRA_r(s)
      [] opcode < 56 -> SWAP_r(s)
      [] opcode < 64 -> SRL_r(s)
      [] opcode < 128 -> BIT_n_r(s)
      [] opcode < 192 -> RES_n_r(s)
      [] OTHER -> SET_n_r(s)

handle_cb_prefix(s) ==
    LET ran(x) == Ret(x, 4 + x.ret)
        fetched(f) == ran(cb_instruction_table(f.s, f.v))
    IN  fetched(FetchByte(s))

\* every handler InitializeInstructionTable registers: the twelve opcodes of
\* NOP are 0x00 and the eleven the CPU leaves undefined
full_table(s, opcode) ==
    CASE opcode \in {0, 211, 219, 221, 227, 228, 235, 236, 237, 244, 252, 253} -> NOP(s)
      [] opcode = 2 -> LD_BCmem_A(s)
      [] opcode = 18 -> LD_DEmem_A(s)
      [] opcode = 34 -> LDI_HLmem_A(s)
      [] opcode = 50 -> LDD_HLmem_A(s)
      [] opcode = 10 -> LD_A_BCmem(s)
      [] opcode = 26 -> LD_A_DEmem(s)
      [] opcode = 42 -> LDI_A_HLmem(s)
      [] opcode = 58 -> LDD_A_HLmem(s)
      [] opcode = 8 -> LD_d16mem_SP(s)
      [] opcode = 242 -> LD_A_Cmem(s)
      [] opcode = 226 -> LD_Cmem_A(s)
      [] opcode \in 160..167 -> AND_A_r(s)
      [] opcode \in 168..175 -> XOR_A_r(s)
      [] opcode \in 176..183 -> OR_A_r(s)
      [] opcode = 230 -> AND_A_d8(s)
      [] opcode = 238 -> XOR_A_d8(s)
      [] opcode = 246 -> OR_A_d8(s)
      [] opcode \in {5, 13, 21, 29, 37, 45, 53, 61} -> DEC_r(s)
      [] opcode \in {3, 19, 35, 51} -> INC_rr(s)
      [] opcode \in {11, 27, 43, 59} -> DEC_rr(s)
      [] opcode = 47 -> CPL(s)
      [] opcode = 55 -> SCF(s)
      [] opcode = 63 -> CCF(s)
      [] opcode = 7 -> RLCA(s)
      [] opcode = 23 -> RLA(s)
      [] opcode = 15 -> RRCA(s)
      [] opcode = 31 -> RRA(s)
      [] opcode = 249 -> LD_SP_HL(s)
      [] opcode = 248 -> LD_HL_SPs8(s)
      [] opcode = 232 -> ADD_SP_s8(s)
      [] opcode = 233 -> JP_HL(s)
      [] opcode = 194 -> JP_NZ_d16(s)
      [] opcode = 202 -> JP_Z_d16(s)
      [] opcode = 210 -> JP_NC_d16(s)
      [] opcode = 218 -> JP_C_d16(s)
      [] opcode = 32 -> JR_NZ_d8(s)
      [] opcode = 40 -> JR_Z_d8(s)
      [] opcode = 48 -> JR_NC_d8(s)
      [] opcode = 56 -> JR_C_d8(s)
      [] opcode = 205 -> CALL(s)
      [] opcode = 196 -> CALL_NZ(s)
      [] opcode = 204 -> CALL_Z(s)
      [] opcode = 212 -> CALL_NC(s)
      [] opcode = 220 -> CALL_C(s)
      [] opcode = 201 -> RET(s)
      [] opcode = 217 -> RETI(s)
      [] opcode = 192 -> RET_NZ(s)
      [] opcode = 200 -> RET_Z(s)
      [] opcode = 208 -> RET_NC(s)
      [] opcode = 216 -> RET_C(s)
      [] opcode = 16 -> STOP(s)
      [] opcode = 203 -> handle_cb_prefix(s)
      [] OTHER -> arithmetic_table(s, opcode)

(***************************************************************************)
(* The tick loop of main()                                                 *)
(***************************************************************************)
\* the bytes of the program at the fetch address; the byte before it is read
\* only by a handler that runs after the HALT bug, and is then the HALT
Rom(op, lo, hi) ==
    [base |-> 0, op |-> op, lo |-> lo, hi |-> hi, pm1 |-> 118, junk |-> 0,
     tie |-> <<>>]

\* what the model records of a pass of the loop; pixels are the calls of the
\* pixel callback made in the pass and drawn the lines drawn in the frame of
\* the PPU; at is the machine after the
\* call of handleInterrupts, where the CPU fetches or stays halted; since is
\* the number of T-cycles stepped since the last write to 0xFF46 (-1 before
\* any, held at DmaLength once the transfer is over)
NoIteration ==
    [kind |-> "none", opcode |-> 0, lo |-> 0, hi |-> 0, irq |-> 0, cost |-> 0,
     cycles |-> 0, since |-> -1, pixels |-> <<>>, drawn |-> 0, reread |-> 0,
     at |-> [AF |-> 0, BC |-> 0, DE |-> 0, HL |-> 0, SP |-> 0, dma |-> FALSE,
             lcdc |-> 0, stat |-> 0, boot |-> FALSE, PC |-> 0, IME |-> FALSE,
             halt_bug |-> FALSE, pending |-> 0, p1 |-> 0, iflag |-> 0]]

Machine(rom) ==
    [cpu |-> cpu, memory |-> memory, boot_rom_enabled |-> boot_rom_enabled,
     dma |-> dma, ppu |-> ppu, timer |-> timer, joypad |-> joypad,
     rom |-> [rom EXCEPT !.base = cpu.PC], ok |-> TRUE, ret |-> 0,
     since |-> last.since, drawn |-> last.drawn, info |-> NoIteration]

\* the serial port tap at the end of the loop body
SerialTap(s) ==
    IF s.memory[SB_REG] <= 127 /\ s.memory[SC_REG] = 129
    THEN [s EXCEPT !.memory[SC_REG] = 0]
    ELSE s

\* ppu_step, timer_step and dma_step, all with cycles_executed
HardwareSteps(s, cycles_executed) ==
    SerialTap(dma_step(timer_step(ppu_step(s, cycles_executed), cycles_executed),
                       cycles_executed))

\* cycles_executed += handleInterrupts(&cpu), with what the CPU is about to do
Serviced(h) ==
    [h EXCEPT !.rom.base = h.cpu.PC,
              !.info = [kind |-> IF h.cpu.halted THEN "halted" ELSE "exec",
                        opcode |-> 0, lo |-> 0, hi |-> 0,
                        irq |-> h.ret, cost |-> 4, cycles |-> h.ret, since |-> -1,
                        pixels |-> <<>>, drawn |-> 0, reread |-> 0,
                        at |-> [AF |-> h.cpu.AF, BC |-> h.cpu.BC, DE |-> h.cpu.DE,
                                HL |-> h.cpu.HL, SP |-> h.cpu.SP,
                                dma |-> h.dma.running,
                                lcdc |-> h.memory[LCDC_REG],
                                stat |-> h.memory[STAT_REG],
                                boot |-> h.boot_rom_enabled,
                                PC |-> h.cpu.PC, IME |-> h.cpu.IME,
                                halt_bug |-> h.cpu.halt_bug,
                                pending |-> And8(h.memory[IE_REG],
                                                 h.memory[IF_REG]),
                                p1 |-> h.memory[P1_REG],
                                iflag |-> h.memory[IF_REG]]]]

\* cycles_executed = instruction_table[opcode](&cpu): assigned, not added
CyclesAssigned(irq, ret) == ret

\* the else branch: FetchByte and the handler table registers for the
\* opcode; reread is what ReadMem(cpu->PC - 1) returns when the handler is
\* entered
DispatchOn(table(_, _), s) ==
    LET ran(x, opcode, reread) ==
            [x EXCEPT !.info.opcode = opcode, !.info.lo = s.rom.lo,
                      !.info.hi = s.rom.hi,
                      !.info.reread = reread,
                      !.info.cost = x.ret,
                      !.info.cycles = CyclesAssigned(s.info.irq, x.ret)]
        fetched(f) == ran(table(f.s, f.v), f.v, Reread(f.s))
    IN  fetched(FetchByte(s))

Dispatch(s) == DispatchOn(instruction_table, s)

\* if (cpu.halted) cycles_executed += 4; else the dispatch
ExecutedOn(table(_, _), s) ==
    IF s.cpu.halted THEN [s EXCEPT !.info.cycles = @ + 4] ELSE DispatchOn(table, s)

Executed(s) == ExecutedOn(instruction_table, s)

\* the T-cycles stepped since the last write to 0xFF46, after c more
Elapsed(since, c) ==
    IF since < 0 THEN since
    ELSE IF since + c >= DmaLength THEN DmaLength ELSE since + c

\* the calls of ppu_scanline since LY last went back to 0 (since power-on, in
\* the first frame), after the hardware steps from e to r
Drawn(e, r) ==
    IF r.ppu.ly < e.ppu.ly THEN 0
    ELSE IF r.info.pixels # <<>> THEN e.drawn + 1
    ELSE e.drawn

Stepped(e) ==
    LET stepped(r) ==
            [r EXCEPT !.info.since = Elapsed(e.since, e.info.cycles),
                      !.info.drawn = Drawn(e, r)]
    IN  stepped(HardwareSteps(e, e.info.cycles))

\* one pass of the inner while loop on machine m
IterationOn(table(_, _), m) ==
    Stepped(ExecutedOn(table, Serviced(handleInterrupts(m))))

Iteration(m) == IterationOn(instruction_table, m)

Commit(r) ==
    /\ r.ok
    /\ cpu' = r.cpu
    /\ memory' = r.memory
    /\ boot_rom_enabled' = r.boot_rom_enabled
    /\ dma' = r.dma
    /\ ppu' = r.ppu
    /\ timer' = r.timer
    /\ joypad' = joypad
    /\ cycles_this_frame' = cycles_this_frame + r.info.cycles
    /\ frames' = frames
    /\ prev' = last
    /\ last' = r.info

\* the condition of the inner while loop, for a frame explored up to limit cycles
Running(limit) ==
    /\ cpu.running
    /\ frames < MaxFrames
    /\ frames = 0 \/ cycles_this_frame < LaterFrame
    /\ cycles_this_frame < FrameLimit
    /\ cycles_this_frame < limit

\* a pass of the loop with rom at the fetch address
TickLoopOn(table(_, _), rom) == Commit(IterationOn(table, Machine(rom)))

TickLoop(rom) == TickLoopOn(instruction_table, rom)

(***************************************************************************)
(* Power-on                                                                *)
(***************************************************************************)
\* InitializePowerOnState, then a cartridge whose tracked bytes are 0
PowerOn ==
    /\ cpu = [AF |-> 0, BC |-> 0, DE |-> 0, HL |-> 0, SP |-> 0, PC |-> 0,
              running |-> TRUE, halted |-> FALSE, halt_bug |-> FALSE, IME |-> FALSE]
    /\ memory = [a \in Addrs |-> IF a < 32768 THEN 0 ELSE PowerOnByte(a)]
    /\ boot_rom_enabled = TRUE
    /\ dma = [running |-> FALSE, cycles |-> 0]
    /\ ppu = [mode |-> MODE_2_OAM_SCAN, cycle_counter |-> 0, ly |-> 0,
              visible_objects |-> <<>>]
    /\ timer = [div_cycle_counter |-> 0, tima_cycle_counter |-> 0]
    /\ joypad = Released
    /\ cycles_this_frame = 0
    /\ frames = 0
    /\ last = NoIteration
    /\ prev = NoIteration

Init == PowerOn

(***************************************************************************)
(* Programs of the interrupt and bus specification: at each fetch address  *)
(* the cartridge holds one of these instructions                           *)
(***************************************************************************)
\* 0xFD: every interrupt source but STAT, a fast timer, mode bits 01, the DMA
\* page 0xFD00; 0x02: the STAT source alone
AVals == {253, 2}

Ports == {Lo(DIV_REG), Lo(IF_REG), Lo(IE_REG), Lo(STAT_REG), Lo(LY_REG),
          Lo(LYC_REG), Lo(DMA_REG), Lo(BOOT_REG)}

ExecNOP ==
    /\ Running(Horizon)
    /\ TickLoop(Rom(0, 0, 0))

ExecLD_A_d8 ==
    \E d8 \in AVals :
        /\ Running(Horizon)
        /\ TickLoop(Rom(62, d8, 0))

ExecLD_a8_A ==
    \E a8 \in Ports :
        /\ Running(Horizon)
        /\ TickLoop(Rom(224, a8, 0))

ExecEI ==
    /\ Running(Horizon)
    /\ TickLoop(Rom(251, 0, 0))

ExecDI ==
    /\ Running(Horizon)
    /\ TickLoop(Rom(243, 0, 0))

ExecHALT ==
    /\ Running(Horizon)
    /\ TickLoop(Rom(118, 0, 0))

Next ==
    \/ ExecNOP
    \/ ExecLD_A_d8
    \/ ExecLD_a8_A
    \/ ExecEI
    \/ ExecDI
    \/ ExecHALT

Spec == Init /\ [][Next]_vars

(***************************************************************************)
(* Programs of the timer specification: the timer runs at its fastest rate *)
(* and overflows while the program enables interrupts and starts a DMA     *)
(* transfer                                                                *)
(***************************************************************************)
\* T-cycles of the frame the timer programs are explored for
HorizonTimer == 56

TimerPorts == {Lo(TIMA_REG), Lo(TAC_REG), Lo(IE_REG), Lo(DMA_REG)}

TimerNOP ==
    /\ Running(HorizonTimer)
    /\ TickLoop(Rom(0, 0, 0))

TimerLD_A_d8 ==
    /\ Running(HorizonTimer)
    /\ TickLoop(Rom(62, 253, 0))

TimerLD_a8_A ==
    \E a8 \in TimerPorts :
        /\ Running(HorizonTimer)
        /\ TickLoop(Rom(224, a8, 0))

TimerEI ==
    /\ Running(HorizonTimer)
    /\ TickLoop(Rom(251, 0, 0))

NextTimer ==
    \/ TimerNOP
    \/ TimerLD_A_d8
    \/ TimerLD_a8_A
    \/ TimerEI

SpecTimer == Init /\ [][NextTimer]_vars

(***************************************************************************)
(* The accumulator and flags specification: AF under every handler that    *)
(* assigns it.  AF depends on the rest of the machine only through the     *)
(* operand bytes, which range over AluBytes and the accumulator itself.    *)
(***************************************************************************)
\* 0x00, 0x0F, 0x12 and 0xFF
AluBytes == {0, 15, 18, 255}

AluWords == {0, 4095, 65535}

\* an operand that is not register A, and register A
RegIds == {0, 7}

BitIds == {0, 7}

Operand(r, n) == IF r = 7 THEN Hi(cpu.AF) ELSE n

\* the handler has left af in AF; lo is the byte it took for F
AluStep(kind, lo, af) ==
    /\ cpu' = [cpu EXCEPT !.AF = af]
    /\ last' = [NoIteration EXCEPT !.kind = kind, !.lo = lo]
    /\ prev' = NoIteration
    /\ UNCHANGED <<memory, boot_rom_enabled, dma, ppu, timer, joypad,
                   cycles_this_frame, frames>>

AluLDI_A_HLmem ==
    \E n \in AluBytes :
        /\ cpu.running
        /\ AluStep("alu", 0, LDI_A_HLmem_AF(cpu.AF, n))

AluLDD_A_HLmem ==
    \E n \in AluBytes :
        /\ cpu.running
        /\ AluStep("alu", 0, LDD_A_HLmem_AF(cpu.AF, n))

AluLD_A_BCmem ==
    \E n \in AluBytes :
        /\ cpu.running
        /\ AluStep("alu", 0, LD_A_BCmem_AF(cpu.AF, n))

AluLD_A_DEmem ==
    \E n \in AluBytes :
        /\ cpu.running
        /\ AluStep("alu", 0, LD_A_DEmem_AF(cpu.AF, n))

AluLD_A_d16mem ==
    \E n \in AluBytes :
        /\ cpu.running
        /\ AluStep("alu", 0, LD_A_d16mem_AF(cpu.AF, n))

AluLD_A_Cmem ==
    \E n \in AluBytes :
        /\ cpu.running
        /\ AluStep("alu", 0, LD_A_Cmem_AF(cpu.AF, n))

AluADD_A_d8 ==
    \E n \in AluBytes :
        /\ cpu.running
        /\ AluStep("alu", 0, ADD_A_d8_AF(cpu.AF, n))

AluADC_A_d8 ==
    \E n \in AluBytes :
        /\ cpu.running
        /\ AluStep("alu", 0, ADC_A_d8_AF(cpu.AF, n))

AluSUB_A_d8 ==
    \E n \in AluBytes :
        /\ cpu.running
        /\ AluStep("alu", 0, SUB_A_d8_AF(cpu.AF, n))

AluSBC_A_d8 ==
    \E n \in AluBytes :
        /\ cpu.running
        /\ AluStep("alu", 0, SBC_A_d8_AF(cpu.AF, n))

AluAND_A_d8 ==
    \E n \in AluBytes :
        /\ cpu.running
        /\ AluStep("alu", 0, AND_A_d8_AF(cpu.AF, n))

AluOR_A_d8 ==
    \E n \in AluBytes :
        /\ cpu.running
        /\ AluStep("alu", 0, OR_A_d8_AF(cpu.AF, n))

AluXOR_A_d8 ==
    \E n \in AluBytes :
        /\ cpu.running
        /\ AluStep("alu", 0, XOR_A_d8_AF(cpu.AF, n))

AluCP_A_d8 ==
    \E n \in AluBytes :
        /\ cpu.running
        /\ AluStep("alu", 0, CP_A_d8_AF(cpu.AF, n))

AluLD_r_d8 ==
    \E d8 \in AluBytes :
        /\ cpu.running
        /\ AluStep("alu", 0, A_maskF(cpu.AF, d8))

AluLD_A_a8 ==
    \E n \in AluBytes :
        /\ cpu.running
        /\ AluStep("alu", 0, A_maskF(cpu.AF, n))

AluLD_r_r ==
    \E r \in RegIds, n \in AluBytes :
        /\ cpu.running
        /\ AluStep("alu", 0, LD_r_r_AF(cpu.AF, Operand(r, n)))

AluADD_A_r ==
    \E r \in RegIds, n \in AluBytes :
        /\ cpu.running
        /\ AluStep("alu", 0, ADD_A_r_AF(cpu.AF, Operand(r, n)))

AluADC_A_r ==
    \E r \in RegIds, n \in AluBytes :
        /\ cpu.running
        /\ AluStep("alu", 0, ADC_A_r_AF(cpu.AF, Operand(r, n)))

AluSUB_A_r ==
    \E r \in RegIds, n \in AluBytes :
        /\ cpu.running
        /\ AluStep("alu", 0, SUB_A_r_AF(cpu.AF, Operand(r, n)))

AluSBC_A_r ==
    \E r \in RegIds, n \in AluBytes :
        /\ cpu.running
        /\ AluStep("alu", 0, SBC_A_r_AF(cpu.AF, Operand(r, n)))

AluAND_A_r ==
    \E r \in RegIds, n \in AluBytes :
        /\ cpu.running
        /\ AluStep("alu", 0, AND_A_r_AF(cpu.AF, Operand(r, n)))

AluOR_A_r ==
    \E r \in RegIds, n \in AluBytes :
        /\ cpu.running
        /\ AluStep("alu", 0, OR_A_r_AF(cpu.AF, Operand(r, n)))

AluXOR_A_r ==
    \E r \in RegIds, n \in AluBytes :
        /\ cpu.running
        /\ AluStep("alu", 0, XOR_A_r_AF(cpu.AF, Operand(r, n)))

AluCP_A_r ==
    \E r \in RegIds, n \in AluBytes :
        /\ cpu.running
        /\ AluStep("alu", 0, CP_A_r_AF(cpu.AF, Operand(r, n)))

AluDAA ==
    /\ cpu.running
    /\ AluStep("alu", 0, DAA_AF(cpu.AF))

AluCPL ==
    /\ cpu.running
    /\ AluStep("alu", 0, CPL_AF(cpu.AF))

AluSCF ==
    /\ cpu.running
    /\ AluStep("alu", 0, SCF_AF(cpu.AF))

AluCCF ==
    /\ cpu.running
    /\ AluStep("alu", 0, CCF_AF(cpu.AF))

AluRLCA ==
    /\ cpu.running
    /\ AluStep("alu", 0, RLCA_AF(cpu.AF))

AluRLA ==
    /\ cpu.running
    /\ AluStep("alu", 0, RLA_AF(cpu.AF))

AluRRCA ==
    /\ cpu.running
    /\ AluStep("alu", 0, RRCA_AF(cpu.AF))

AluRRA ==
    /\ cpu.running
    /\ AluStep("alu", 0, RRA_AF(cpu.AF))

AluINC_r ==
    \E r \in RegIds, n \in AluBytes :
        /\ cpu.running
        /\ AluStep("alu", 0, INC_r_AF(cpu.AF, r, Operand(r, n)))

AluDEC_r ==
    \E r \in RegIds, n \in AluBytes :
        /\ cpu.running
        /\ AluStep("alu", 0, DEC_r_AF(cpu.AF, r, Operand(r, n)))

AluRLC_r ==
    \E r \in RegIds, n \in AluBytes :
        /\ cpu.running
        /\ AluStep("alu", 0, RLC_r_AF(cpu.AF, r, Operand(r, n)))

AluRRC_r ==
    \E r \in RegIds, n \in AluBytes :
        /\ cpu.running
        /\ AluStep("alu", 0, RRC_r_AF(cpu.AF, r, Operand(r, n)))

AluRL_r ==
    \E r \in RegIds, n \in AluBytes :
        /\ cpu.running
        /\ AluStep("alu", 0, RL_r_AF(cpu.AF, r, Operand(r, n)))

AluRR_r ==
    \E r \in RegIds, n \in AluBytes :
        /\ cpu.running
        /\ AluStep("alu", 0, RR_r_AF(cpu.AF, r, Operand(r, n)))

AluSLA_r ==
    \E r \in RegIds, n \in AluBytes :
        /\ cpu.running
        /\ AluStep("alu", 0, SLA_r_AF(cpu.AF, r, Operand(r, n)))

AluSRA_r ==
    \E r \in RegIds, n \in AluBytes :
        /\ cpu.running
        /\ AluStep("alu", 0, SRA_r_AF(cpu.AF, r, Operand(r, n)))

AluSRL_r ==
    \E r \in RegIds, n \in AluBytes :
        /\ cpu.running
        /\ AluStep("alu", 0, SRL_r_AF(cpu.AF, r, Operand(r, n)))

AluSWAP_r ==
    \E r \in RegIds, n \in AluBytes :
        /\ cpu.running
        /\ AluStep("alu", 0, SWAP_r_AF(cpu.AF, r, Operand(r, n)))

AluBIT_n_r ==
    \E r \in RegIds, b \in BitIds, n \in AluBytes :
        /\ cpu.running
        /\ AluStep("alu", 0, BIT_n_r_AF(cpu.AF, b, Operand(r, n)))

AluSET_n_r ==
    \E r \in RegIds, b \in BitIds, n \in AluBytes :
        /\ cpu.running
        /\ AluStep("alu", 0, SET_n_r_AF(cpu.AF, r, b, Operand(r, n)))

AluRES_n_r ==
    \E r \in RegIds, b \in BitIds, n \in AluBytes :
        /\ cpu.running
        /\ AluStep("alu", 0, RES_n_r_AF(cpu.AF, r, b, Operand(r, n)))

AluLD_HL_SPs8 ==
    \E sp \in AluWords, n \in AluBytes :
        /\ cpu.running
        /\ AluStep("alu", 0, LD_HL_SPs8_AF(cpu.AF, sp, n))

AluADD_SP_s8 ==
    \E sp \in AluWords, n \in AluBytes :
        /\ cpu.running
        /\ AluStep("alu", 0, ADD_SP_s8_AF(cpu.AF, sp, n))

AluADD_HL_rr ==
    \E hl \in AluWords, n \in AluWords :
        /\ cpu.running
        /\ AluStep("alu", 0, ADD_HL_rr_AF(cpu.AF, hl, n))

AluPOP_AF ==
    \E flags \in AluBytes, a \in AluBytes :
        /\ cpu.running
        /\ AluStep("pop_af", flags, AfFromStack(flags, a))

NextAlu ==
    \/ AluLDI_A_HLmem
    \/ AluLDD_A_HLmem
    \/ AluLD_A_BCmem
    \/ AluLD_A_DEmem
    \/ AluLD_A_d16mem
    \/ AluLD_A_Cmem
    \/ AluADD_A_d8
    \/ AluADC_A_d8
    \/ AluSUB_A_d8
    \/ AluSBC_A_d8
    \/ AluAND_A_d8
    \/ AluOR_A_d8
    \/ AluXOR_A_d8
    \/ AluCP_A_d8
    \/ AluLD_r_d8
    \/ AluLD_A_a8
    \/ AluLD_r_r
    \/ AluADD_A_r
    \/ AluADC_A_r
    \/ AluSUB_A_r
    \/ AluSBC_A_r
    \/ AluAND_A_r
    \/ AluOR_A_r
    \/ AluXOR_A_r
    \/ AluCP_A_r
    \/ AluDAA
    \/ AluCPL
    \/ AluSCF
    \/ AluCCF
    \/ AluRLCA
    \/ AluRLA
    \/ AluRRCA
    \/ AluRRA
    \/ AluINC_r
    \/ AluDEC_r
    \/ AluRLC_r
    \/ AluRRC_r
    \/ AluRL_r
    \/ AluRR_r
    \/ AluSLA_r
    \/ AluSRA_r
    \/ AluSRL_r
    \/ AluSWAP_r
    \/ AluBIT_n_r
    \/ AluSET_n_r
    \/ AluRES_n_r
    \/ AluLD_HL_SPs8
    \/ AluADD_SP_s8
    \/ AluADD_HL_rr
    \/ AluPOP_AF

SpecAlu == Init /\ [][NextAlu]_vars

(***************************************************************************)
(* The frame specification: a whole frame of the outer loop of main(),     *)
(* under programs that stay where they are (JR -2 and JP 0x0000, of 12 and *)
(* 16 cycles) or halt (passes of 4 cycles)                                 *)
(***************************************************************************)
FrameJR ==
    /\ Running(FrameLimit)
    /\ ~cpu.halted
    /\ TickLoop(Rom(24, 254, 0))

FrameJP ==
    /\ Running(FrameLimit)
    /\ ~cpu.halted
    /\ TickLoop(Rom(195, 0, 0))

\* HALT at the fetch address; once halted, the passes that fetch nothing
FrameHALT ==
    /\ Running(FrameLimit)
    /\ TickLoop(Rom(118, 0, 0))

\* the inner loop has ended: the outer loop starts the next frame at 0 cycles
FrameEnd ==
    /\ cpu.running
    /\ frames < MaxFrames
    /\ cycles_this_frame >= FrameLimit
    /\ cycles_this_frame' = 0
    /\ frames' = frames + 1
    /\ UNCHANGED <<cpu, memory, boot_rom_enabled, dma, ppu, timer, joypad, last,
                   prev>>

NextFrame ==
    \/ FrameJR
    \/ FrameJP
    \/ FrameHALT
    \/ FrameEnd

SpecFrame == Init /\ [][NextFrame]_vars

(***************************************************************************)
(* The stack specification: PUSH and POP from the states a program is in   *)
(* once it has set the stack pointer and the registers, with the LCD on or *)
(* off, the PPU in each mode and about to change mode, the boot ROM mapped *)
(* or not, and a DMA transfer running while the routine is in high RAM     *)
(***************************************************************************)
\* T-cycles of the frame the stack programs are explored for
HorizonStack == 28

\* SP under the boot-ROM shadow, in VRAM, work RAM, OAM and high RAM, above
\* DIV and TIMA, and at 0 (the stack on 0xFFFE and IE)
StackTops == {242, 32770, 49154, 65026, 65410, 65286, 0}

\* mode and cycle_counter of the PPU: the start of a mode, and short of its end
Phases == {<<MODE_2_OAM_SCAN, 0>>, <<MODE_2_OAM_SCAN, 72>>, <<MODE_3_DRAWING, 0>>,
           <<MODE_3_DRAWING, 164>>, <<MODE_0_HBLANK, 0>>}

InitStack ==
    \E sp \in StackTops, lcd \in BOOLEAN, phase \in Phases,
       shadow \in BOOLEAN, transfer \in BOOLEAN :
        /\ cpu = [AF |-> 57072, BC |-> 4660, DE |-> 22136, HL |-> 39612, SP |-> sp,
                  PC |-> IF transfer THEN 65424 ELSE IF shadow THEN 16 ELSE 336,
                  running |-> TRUE, halted |-> FALSE, halt_bug |-> FALSE,
                  IME |-> FALSE]
        /\ memory = [a \in Addrs |->
                        IF a = LCDC_REG THEN (IF lcd THEN 128 ELSE 0)
                        ELSE IF a = STAT_REG THEN phase[1]
                        ELSE IF a = BOOT_REG THEN (IF shadow THEN 0 ELSE 1)
                        ELSE IF a = DMA_REG THEN (IF transfer THEN 193 ELSE 0)
                        ELSE IF a < 32768 THEN 0
                        ELSE PowerOnByte(a)]
        /\ boot_rom_enabled = shadow
        /\ dma = [running |-> transfer, cycles |-> IF transfer THEN 12 ELSE 0]
        /\ ppu = [mode |-> phase[1], cycle_counter |-> phase[2], ly |-> 0,
                  visible_objects |-> <<>>]
        /\ timer = [div_cycle_counter |-> 0, tima_cycle_counter |-> 0]
        /\ joypad = Released
        /\ cycles_this_frame = 0
        /\ frames = 0
        /\ last = NoIteration
        /\ prev = NoIteration

PushOps == {197, 213, 229, 245}

PopOps == {193, 209, 225, 241}

\* a pass of the loop with PUSH BC, DE, HL or AF at the fetch address
StackPUSH ==
    \E opcode \in PushOps :
        /\ Running(HorizonStack)
        /\ TickLoop(Rom(opcode, 0, 0))

\* a pass of the loop with POP BC, DE, HL or AF at the fetch address
StackPOP ==
    \E opcode \in PopOps :
        /\ Running(HorizonStack)
        /\ TickLoop(Rom(opcode, 0, 0))

NextStack ==
    \/ StackPUSH
    \/ StackPOP

SpecStack == InitStack /\ [][NextStack]_vars

(***************************************************************************)
(* The bus specification: stores of A to, and loads of A from, a byte of   *)
(* each region of the memory map and the DMA and boot-ROM registers, from  *)
(* the states a program is in once it has filled its memory: the LCD on or *)
(* off, the PPU in each mode and about to change mode, the boot ROM mapped *)
(* or not, and a DMA transfer running while the routine is in high RAM     *)
(***************************************************************************)
\* T-cycles of the frame the bus programs are explored for
HorizonBus == 20

\* a byte of the cartridge under the boot-ROM shadow, of VRAM, of work RAM,
\* of OAM and of high RAM, STAT, the DMA register and the boot-ROM register
BusAddrs == {240, 32768, 49152, 65024, 65408, STAT_REG, DMA_REG, BOOT_REG}

\* what the program and the cartridge have put at the tracked bytes
Filled(a) ==
    CASE a = 240 -> 85
      [] a = 241 -> 86
      [] a = 32768 -> 51
      [] a = 32769 -> 52
      [] a = 49152 -> 17
      [] a = 49153 -> 34
      [] a = 65024 -> 102
      [] a = 65025 -> 103
      [] a = 65408 -> 68
      [] a = 65409 -> 69
      [] OTHER -> PowerOnByte(a)

InitBus ==
    \E lcd \in BOOLEAN, phase \in Phases, shadow \in BOOLEAN, transfer \in BOOLEAN :
        /\ cpu = [AF |-> 49152, BC |-> 0, DE |-> 0, HL |-> 0, SP |-> 65534,
                  PC |-> IF transfer THEN 65424 ELSE IF shadow THEN 16 ELSE 336,
                  running |-> TRUE, halted |-> FALSE, halt_bug |-> FALSE,
                  IME |-> FALSE]
        /\ memory = [a \in Addrs |->
                        IF a = LCDC_REG THEN (IF lcd THEN 128 ELSE 0)
                        ELSE IF a = STAT_REG THEN phase[1]
                        ELSE IF a = BOOT_REG THEN (IF shadow THEN 0 ELSE 1)
                        ELSE IF a = DMA_REG THEN (IF transfer THEN 193 ELSE 0)
                        ELSE Filled(a)]
        /\ boot_rom_enabled = shadow
        /\ dma = [running |-> transfer, cycles |-> IF transfer THEN 12 ELSE 0]
        /\ ppu = [mode |-> phase[1], cycle_counter |-> phase[2], ly |-> 0,
                  visible_objects |-> <<>>]
        /\ timer = [div_cycle_counter |-> 0, tima_cycle_counter |-> 0]
        /\ joypad = Released
        /\ cycles_this_frame = 0
        /\ frames = 0
        /\ last = [NoIteration EXCEPT !.since = IF transfer THEN 12 ELSE -1]
        /\ prev = NoIteration

\* a pass of the loop with LD (a16),A at the fetch address
BusStore ==
    \E addr \in BusAddrs :
        /\ Running(HorizonBus)
        /\ TickLoop(Rom(234, Lo(addr), Hi(addr)))

\* a pass of the loop with LD A,(a16) at the fetch address
BusLoad ==
    \E addr \in BusAddrs :
        /\ Running(HorizonBus)
        /\ TickLoop(Rom(250, Lo(addr), Hi(addr)))

NextBus ==
    \/ BusStore
    \/ BusLoad

SpecBus == InitBus /\ [][NextBus]_vars

(***************************************************************************)
(* The DMA specification: a routine in high RAM that starts transfers from *)
(* work RAM and waits, for longer than a transfer lasts                    *)
(***************************************************************************)
\* T-cycles of the frame the DMA routine is explored for
HorizonDma == 700

\* bytes of the routine, which starts at 0xFF90, besides the waiting loop
RoutineLen == 5

InitDma ==
    /\ cpu = [AF |-> 49152, BC |-> 0, DE |-> 0, HL |-> 0, SP |-> 65534,
              PC |-> 65424, running |-> TRUE, halted |-> FALSE,
              halt_bug |-> FALSE, IME |-> FALSE]
    /\ memory = [a \in Addrs |-> IF a = BOOT_REG THEN 1 ELSE Filled(a)]
    /\ boot_rom_enabled = FALSE
    /\ dma = [running |-> FALSE, cycles |-> 0]
    /\ ppu = [mode |-> MODE_2_OAM_SCAN, cycle_counter |-> 0, ly |-> 0,
              visible_objects |-> <<>>]
    /\ timer = [div_cycle_counter |-> 0, tima_cycle_counter |-> 0]
    /\ joypad = Released
    /\ cycles_this_frame = 0
    /\ frames = 0
    /\ last = NoIteration
    /\ prev = NoIteration

\* LDH (0x46),A: the routine starts a transfer from the page in A
DmaStart ==
    /\ Running(HorizonDma)
    /\ cpu.PC + 2 <= 65424 + RoutineLen
    /\ TickLoop(Rom(224, Lo(DMA_REG), 0))

\* JR -2: the routine waits
DmaWait ==
    /\ Running(HorizonDma)
    /\ TickLoop(Rom(24, 254, 0))

\* NOP
DmaNOP ==
    /\ Running(HorizonDma)
    /\ cpu.PC + 1 <= 65424 + RoutineLen
    /\ TickLoop(Rom(0, 0, 0))

NextDma ==
    \/ DmaStart
    \/ DmaWait
    \/ DmaNOP

SpecDma == InitDma /\ [][NextDma]_vars

(***************************************************************************)
(* The timer-step specification: timer_step applied, with the costs the    *)
(* tick loop hands it, to timers in every setting of TAC, about to wrap or *)
(* not, with an accumulator short of a threshold or far beyond one         *)
(***************************************************************************)
\* T-cycles the timer is stepped for
HorizonStep == 24

TacVals == 0..7

TimaVals == {0, 254, 255}

TmaVals == {0, 171, 255}

\* the accumulator: empty, short of the shortest threshold, short of the
\* longest threshold
AccVals == {0, 12, 1020}

\* costs of a pass of the tick loop: the shortest, LDH, and the longest
StepCycles == {4, 12, 24}

InitTimerStep ==
    \E TAC \in TacVals, TIMA \in TimaVals, TMA \in TmaVals, acc \in AccVals :
        /\ cpu = [AF |-> 0, BC |-> 0, DE |-> 0, HL |-> 0, SP |-> 65534, PC |-> 336,
                  running |-> TRUE, halted |-> FALSE, halt_bug |-> FALSE,
                  IME |-> FALSE]
        /\ memory = [a \in Addrs |->
                        IF a = TAC_REG THEN TAC
                        ELSE IF a = TIMA_REG THEN TIMA
                        ELSE IF a = TMA_REG THEN TMA
                        ELSE IF a < 32768 THEN 0
                        ELSE PowerOnByte(a)]
        /\ boot_rom_enabled = FALSE
        /\ dma = [running |-> FALSE, cycles |-> 0]
        /\ ppu = [mode |-> MODE_2_OAM_SCAN, cycle_counter |-> 0, ly |-> 0,
                  visible_objects |-> <<>>]
        /\ timer = [div_cycle_counter |-> 0, tima_cycle_counter |-> acc]
        /\ joypad = Released
        /\ cycles_this_frame = 0
        /\ frames = 0
        /\ last = NoIteration
        /\ prev = NoIteration

\* timer_step(cycles_executed); prev keeps what the timer was before the call
TimerStepCall ==
    \E c \in StepCycles :
        LET stepped(r) == memory' = r.memory /\ timer' = r.timer
        IN  /\ cpu.running
            /\ cycles_this_frame < HorizonStep
            /\ stepped(timer_step(Machine(Rom(0, 0, 0)), c))
            /\ cycles_this_frame' = cycles_this_frame + c
            /\ last' = [NoIteration EXCEPT !.kind = "timer_step", !.cycles = c]
            /\ prev' = [kind |-> "before", tima |-> memory[TIMA_REG],
                        flags |-> memory[IF_REG], acc |-> timer.tima_cycle_counter]
            /\ UNCHANGED <<cpu, boot_rom_enabled, dma, ppu, joypad, frames>>

NextTimerStep == TimerStepCall

SpecTimerStep == InitTimerStep /\ [][NextTimerStep]_vars

(***************************************************************************)
(* The timer-overflow specification: TMA = 0xAB, TIMA = 0xFE, TAC = 0x05,  *)
(* IME = 1, IE = 0x04 and IF = 0, and a program of NOPs, at several places *)
(* of the cartridge and with the stack in work RAM, OAM or high RAM        *)
(***************************************************************************)
\* T-cycles of the frame the NOPs are explored for
HorizonOverflow == 64

\* where the program of NOPs starts
OverflowStarts == {336, 512, 16384}

\* SP above two tracked bytes of work RAM, OAM and high RAM
OverflowTops == {49154, 65026, 65410}

InitOverflow ==
    \E pc \in OverflowStarts, sp \in OverflowTops :
        /\ cpu = [AF |-> 0, BC |-> 0, DE |-> 0, HL |-> 0, SP |-> sp, PC |-> pc,
                  running |-> TRUE, halted |-> FALSE, halt_bug |-> FALSE,
                  IME |-> TRUE]
        /\ memory = [a \in Addrs |->
                        IF a = TMA_REG THEN 171
                        ELSE IF a = TIMA_REG THEN 254
                        ELSE IF a = TAC_REG THEN 5
                        ELSE IF a = IE_REG THEN 4
                        ELSE IF a = BOOT_REG THEN 1
                        ELSE IF a < 32768 THEN 0
                        ELSE PowerOnByte(a)]
        /\ boot_rom_enabled = FALSE
        /\ dma = [running |-> FALSE, cycles |-> 0]
        /\ ppu = [mode |-> MODE_2_OAM_SCAN, cycle_counter |-> 0, ly |-> 0,
                  visible_objects |-> <<>>]
        /\ timer = [div_cycle_counter |-> 0, tima_cycle_counter |-> 0]
        /\ joypad = Released
        /\ cycles_this_frame = 0
        /\ frames = 0
        /\ last = NoIteration
        /\ prev = NoIteration

OverflowNOP ==
    /\ Running(HorizonOverflow)
    /\ TickLoop(Rom(0, 0, 0))

NextOverflow == OverflowNOP

SpecOverflow == InitOverflow /\ [][NextOverflow]_vars

(***************************************************************************)
(* The HALT specification: HALT, NOP, LD A,d8 and EI from the states a     *)
(* program is in with IME set or clear, the VBLANK interrupt enabled or    *)
(* not and requested or not, the PPU at power-on or at the end of line 143 *)
(* (two passes away from VBLANK), and a DMA transfer running or not, with  *)
(* the program in the cartridge or in high RAM                             *)
(***************************************************************************)
\* T-cycles of the frame the HALT programs are explored for
HorizonHalt == 20

\* where the program starts: cartridge, high RAM
HaltStarts == {336, 65424}

InitHalt ==
    \E ime \in BOOLEAN, enabled \in 0..1, requested \in 0..1,
       near \in BOOLEAN, transfer \in BOOLEAN, pc \in HaltStarts :
        /\ cpu = [AF |-> 0, BC |-> 0, DE |-> 0, HL |-> 0, SP |-> 65410, PC |-> pc,
                  running |-> TRUE, halted |-> FALSE, halt_bug |-> FALSE,
                  IME |-> ime]
        /\ memory = [a \in Addrs |->
                        IF a = IE_REG THEN enabled
                        ELSE IF a = IF_REG THEN requested
                        ELSE IF a = BOOT_REG THEN 1
                        ELSE IF a = LCDC_REG THEN 128
                        ELSE IF a = STAT_REG THEN (IF near THEN 0 ELSE 2)
                        ELSE IF a = LY_REG THEN (IF near THEN 143 ELSE 0)
                        ELSE IF a = DMA_REG THEN (IF transfer THEN 193 ELSE 0)
                        ELSE IF a < 32768 THEN 0
                        ELSE PowerOnByte(a)]
        /\ boot_rom_enabled = FALSE
        /\ dma = [running |-> transfer, cycles |-> IF transfer THEN 12 ELSE 0]
        /\ ppu = [mode |-> IF near THEN MODE_0_HBLANK ELSE MODE_2_OAM_SCAN,
                  cycle_counter |-> IF near THEN 196 ELSE 0,
                  ly |-> IF near THEN 143 ELSE 0,
                  visible_objects |-> <<>>]
        /\ timer = [div_cycle_counter |-> 0, tima_cycle_counter |-> 0]
        /\ joypad = Released
        /\ cycles_this_frame = 0
        /\ frames = 0
        /\ last = [NoIteration EXCEPT !.since = IF transfer THEN 12 ELSE -1]
        /\ prev = NoIteration

\* HALT at the fetch address
HaltHALT ==
    /\ Running(HorizonHalt)
    /\ TickLoop(Rom(118, 0, 0))

\* a one-byte instruction at the fetch address: NOP or EI; a halted CPU
\* fetches it in the pass that wakes it
HaltOneByte ==
    \E opcode \in {0, 251} :
        /\ Running(HorizonHalt)
        /\ TickLoop(Rom(opcode, 0, 0))

\* LD A,d8 at the fetch address
HaltLD_A_d8 ==
    \E d8 \in AVals :
        /\ Running(HorizonHalt)
        /\ TickLoop(Rom(62, d8, 0))

NextHalt ==
    \/ HaltHALT
    \/ HaltOneByte
    \/ HaltLD_A_d8

SpecHalt == InitHalt /\ [][NextHalt]_vars

(***************************************************************************)
(* The PPU specification: calls of ppu_step, with the cycles of a pass of  *)
(* the tick loop, from the states the PPU is in short of the end of each   *)
(* mode on the first and the last lines of the picture and of the vertical *)
(* blank, with the STAT interrupt sources off and on, LYC on line 0 or on  *)
(* line 144, sprites of height 8 and 16 and OAM holding one of the scenes  *)
(***************************************************************************)
\* T-cycles the PPU is stepped for
HorizonPpu == 32

\* how many of the entries qsort is given may change places when they
\* compare equal
TieLen == 3

\* mode, cycle_counter and ly: short of the end of each mode
PpuPhases ==
    {<<MODE_2_OAM_SCAN, 72, ly>> : ly \in {0, 142, 143}}
        \cup {<<MODE_3_DRAWING, 164, ly>> : ly \in {0, 142, 143}}
        \cup {<<MODE_0_HBLANK, 196, ly>> : ly \in {0, 142, 143}}
        \cup {<<MODE_1_VBLANK, 448, ly>> : ly \in {144, 152, 153}}

\* the STAT interrupt sources: none, VBLANK alone, all four
StatSources == {0, 16, 120}

\* costs of a pass of the tick loop
PpuCycles == {4, 8, 12, 24}

\* the OAM entries (Y, X, tile, attributes) a program has set up, from entry 0
\* on; Y = band puts an 8-line sprite on the 8 lines from band - 16 on.
\* Twelve sprites right to left; four sprites, three of them at the same X;
\* three sprites half above the band, two at the same X; none
Scenes(band) ==
    << [i \in 1..12 |-> <<band, 104 - 8*i, i, 0>>],
       << <<band, 40, 1, 0>>, <<band, 40, 2, 0>>, <<band, 24, 3, 0>>,
          <<band, 40, 4, 0>> >>,
       << <<band - 8, 16, 1, 0>>, <<band - 8, 16, 2, 0>>, <<band - 8, 8, 3, 0>> >>,
       << >> >>

\* the bytes of OAM the scenes use: entries 0 to 11
OamAddrs == 65024..65071

\* memory[addr] of OAM when it holds the entries of sprites
OamByte(sprites, addr) ==
    LET i == (addr - 65024) \div 4 + 1
    IN  IF i <= Len(sprites) THEN sprites[i][((addr - 65024) % 4) + 1] ELSE 0

Perms(n) == {p \in [1..n -> 1..n] : \A i, j \in 1..n : p[i] = p[j] => i = j}

InitPpu ==
    \E phase \in PpuPhases, sources \in StatSources, LYC \in {0, 144},
       tall \in BOOLEAN, band \in {16, 152}, scene \in 1..4 :
        /\ cpu = [AF |-> 0, BC |-> 0, DE |-> 0, HL |-> 0, SP |-> 65534, PC |-> 336,
                  running |-> TRUE, halted |-> FALSE, halt_bug |-> FALSE,
                  IME |-> FALSE]
        /\ memory = [a \in Addrs \cup OamAddrs |->
                        IF a \in OamAddrs THEN OamByte(Scenes(band)[scene], a)
                        ELSE IF a = LCDC_REG THEN 128 + (IF tall THEN 4 ELSE 0)
                        ELSE IF a = STAT_REG
                             THEN sources + phase[1] + (IF phase[3] = LYC THEN 4 ELSE 0)
                        ELSE IF a = LY_REG THEN phase[3]
                        ELSE IF a = LYC_REG THEN LYC
                        ELSE IF a = BOOT_REG THEN 1
                        ELSE IF a < 32768 THEN 0
                        ELSE PowerOnByte(a)]
        /\ boot_rom_enabled = FALSE
        /\ dma = [running |-> FALSE, cycles |-> 0]
        /\ ppu = [mode |-> phase[1], cycle_counter |-> phase[2], ly |-> phase[3],
                  visible_objects |-> <<>>]
        /\ timer = [div_cycle_counter |-> 0, tima_cycle_counter |-> 0]
        /\ joypad = Released
        /\ cycles_this_frame = 0
        /\ frames = 0
        /\ last = NoIteration
        /\ prev = NoIteration

\* the orders a call of qsort may leave equal entries in: ppu_step calls
\* ppu_oam_scan at the end of HBLANK and of VBLANK only
Ties ==
    IF ppu.mode \in {MODE_0_HBLANK, MODE_1_VBLANK} THEN Perms(TieLen) ELSE {<<>>}

\* ppu_step(&ppu, cycles_executed); prev keeps what the PPU was before the call
PpuStepCall ==
    \E c \in PpuCycles, tie \in Ties :
        LET stepped(r) ==
                /\ memory' = r.memory
                /\ ppu' = r.ppu
                /\ last' = [NoIteration EXCEPT !.kind = "ppu_step", !.cycles = c,
                                               !.pixels = r.info.pixels]
        IN  /\ cpu.running
            /\ cycles_this_frame < HorizonPpu
            /\ stepped(ppu_step(Machine([Rom(0, 0, 0) EXCEPT !.tie = tie]), c))
            /\ cycles_this_frame' = cycles_this_frame + c
            /\ prev' = [kind |-> "before", mode |-> ppu.mode,
                        acc |-> ppu.cycle_counter, ly |-> ppu.ly,
                        flags |-> memory[IF_REG], stat |-> memory[STAT_REG]]
            /\ UNCHANGED <<cpu, boot_rom_enabled, dma, timer, joypad, frames>>

NextPpu == PpuStepCall

SpecPpu == InitPpu /\ [][NextPpu]_vars

(***************************************************************************)
(* The scanline specification: ppu_step from the end of DRAWING of a line   *)
(* of a picture with background, window and sprites, with and without a    *)
(* DMA transfer running                                                     *)
(***************************************************************************)
\* the line being drawn
ScanLines == {2, 9}

\* LCDC with the LCD on: sprites alone with signed tile ids; sprites; no
\* sprites; sprites and window; these with sprites of 16 lines; every layer
\* with both maps at 0x9C00
LcdcValues == {130, 146, 144, 178, 182, 250}

\* the OAM entries of a picture around line ly: a low-priority sprite under
\* two at the same X and a flipped one; a sprite of the lower half of a tall
\* pair, a mirrored low-priority sprite and one half off the left edge; one
\* off the right edge and one hidden at X = 0; none
Sprites(ly) ==
    << << <<ly + 16, 20, 1, 128>>, <<ly + 13, 24, 2, 16>>, <<ly + 16, 24, 3, 32>>,
          <<ly + 14, 28, 1, 80>> >>,
       << <<ly + 6, 12, 2, 0>>, <<ly + 16, 10, 3, 160>>, <<ly + 11, 4, 1, 16>> >>,
       << <<ly + 16, 165, 3, 0>>, <<ly + 12, 0, 1, 0>> >>,
       << >> >>

\* the tile data of tiles 0 to 3 at 0x8000, of tile 0 at 0x9000 and the first
\* two entries of the rows of both tile maps the lines are drawn from
VramAddrs ==
    (32768..32831) \cup (36864..36879)
        \cup {38912, 38913, 38944, 38945, 39936, 39937, 39968, 39969}

\* the picture in VRAM: rows of mixed colour numbers, maps of tiles 1, 2, 0
VramByte(addr) ==
    IF addr < 36864
    THEN (IF addr % 2 = 0 THEN (85 + 19 * (addr - 32768)) % 256
          ELSE (51 + 7 * (addr - 32768)) % 256)
    ELSE IF addr < 38912 THEN (IF addr % 2 = 0 THEN 204 ELSE 170)
    ELSE IF addr \in {38912, 38944} THEN 1
    ELSE IF addr \in {39936, 39968} THEN 2
    ELSE 0

\* SCY, SCX, BGP, OBP0, OBP1, WY, WX
PictureRegs == {65346, 65347, 65351, 65352, 65353, 65354, 65355}

InitScanline ==
    \E ly \in ScanLines, LCDC \in LcdcValues, scene \in 1..4, BGP \in {228, 27},
       WX \in {7, 20}, transfer \in BOOLEAN, tie \in Perms(TieLen) :
        LET mem == [a \in Addrs \cup OamAddrs \cup VramAddrs \cup PictureRegs |->
                        IF a \in OamAddrs THEN OamByte(Sprites(ly)[scene], a)
                        ELSE IF a \in VramAddrs THEN VramByte(a)
                        ELSE IF a = LCDC_REG THEN LCDC
                        ELSE IF a = STAT_REG THEN 3
                        ELSE IF a = LY_REG THEN ly
                        ELSE IF a = LYC_REG THEN 0
                        ELSE IF a = DMA_REG THEN (IF transfer THEN 193 ELSE 0)
                        ELSE IF a = BOOT_REG THEN 1
                        ELSE IF a = 65346 THEN 2
                        ELSE IF a = 65347 THEN 3
                        ELSE IF a = 65351 THEN BGP
                        ELSE IF a = 65352 THEN 228
                        ELSE IF a = 65353 THEN 27
                        ELSE IF a = 65354 THEN 4
                        ELSE IF a = 65355 THEN WX
                        ELSE IF a < 32768 THEN 0
                        ELSE PowerOnByte(a)]
            scanned(s) == ppu_oam_scan(s).ppu.visible_objects
        IN  /\ cpu = [AF |-> 0, BC |-> 0, DE |-> 0, HL |-> 0, SP |-> 65534,
                      PC |-> 336, running |-> TRUE, halted |-> FALSE,
                      halt_bug |-> FALSE, IME |-> FALSE]
            /\ memory = mem
            /\ boot_rom_enabled = FALSE
            /\ dma = [running |-> transfer, cycles |-> IF transfer THEN 12 ELSE 0]
            /\ ppu = [mode |-> MODE_3_DRAWING, cycle_counter |-> 164, ly |-> ly,
                      visible_objects |->
                          scanned([memory |-> mem,
                                   ppu |-> [ly |-> ly, visible_objects |-> <<>>],
                                   rom |-> [Rom(0, 0, 0) EXCEPT !.tie = tie]])]
            /\ timer = [div_cycle_counter |-> 0, tima_cycle_counter |-> 0]
            /\ joypad = Released
            /\ cycles_this_frame = 0
            /\ frames = 0
            /\ last = NoIteration
            /\ prev = NoIteration

SpecScanline == InitScanline /\ [][NextPpu]_vars

(***************************************************************************)
(* The joypad specification: key events, then a routine in high RAM that   *)
(* writes the select bits of 0xFF00 and reads the register, with and       *)
(* without a DMA transfer running                                          *)
(***************************************************************************)
\* T-cycles of the frame the joypad programs are explored for
HorizonJoypad == 36

\* keys held at the same time
MaxHeld == 2

Buttons == {"start", "select", "b", "a", "down", "up", "left", "right"}

\* values the routine writes to 0xFF00: both groups, action buttons, d-pad,
\* neither
SelectBytes == {0, 16, 32, 48}

InitJoypad ==
    \E transfer \in BOOLEAN :
        /\ cpu = [AF |-> 0, BC |-> 0, DE |-> 0, HL |-> 0, SP |-> 65410,
                  PC |-> 65424, running |-> TRUE, halted |-> FALSE,
                  halt_bug |-> FALSE, IME |-> FALSE]
        /\ memory = [a \in Addrs |->
                        IF a = BOOT_REG THEN 1
                        ELSE IF a = DMA_REG THEN (IF transfer THEN 193 ELSE 0)
                        ELSE IF a < 32768 THEN 0
                        ELSE PowerOnByte(a)]
        /\ boot_rom_enabled = FALSE
        /\ dma = [running |-> transfer, cycles |-> IF transfer THEN 12 ELSE 0]
        /\ ppu = [mode |-> MODE_2_OAM_SCAN, cycle_counter |-> 0, ly |-> 0,
                  visible_objects |-> <<>>]
        /\ timer = [div_cycle_counter |-> 0, tima_cycle_counter |-> 0]
        /\ joypad = Released
        /\ cycles_this_frame = 0
        /\ frames = 0
        /\ last = [NoIteration EXCEPT !.since = IF transfer THEN 12 ELSE -1]
        /\ prev = NoIteration

\* process_input for a key-down or key-up event of a mapped key, polled
\* before the tick loop of the frame
JoypadInput ==
    \E button \in Buttons, is_pressed \in BOOLEAN :
        LET button_just_pressed == is_pressed /\ ~joypad[button]
            held == {k \in Buttons : joypad[k]}
        IN  /\ cpu.running
            /\ cycles_this_frame = 0
            /\ Cardinality(held \cup {button}) <= MaxHeld
            /\ joypad' = [joypad EXCEPT ![button] = is_pressed]
            /\ memory' = IF button_just_pressed
                         THEN [memory EXCEPT ![IF_REG] = Or8(@, 16)]
                         ELSE memory
            /\ UNCHANGED <<cpu, boot_rom_enabled, dma, ppu, timer,
                           cycles_this_frame, frames, last, prev>>

\* LD A,d8 with a select byte
JoypadLD_A_d8 ==
    \E d8 \in SelectBytes :
        /\ Running(HorizonJoypad)
        /\ TickLoop(Rom(62, d8, 0))

\* LDH (0x00),A and LDH A,(0x00)
JoypadLDH ==
    \E opcode \in {224, 240} :
        /\ Running(HorizonJoypad)
        /\ TickLoop(Rom(opcode, 0, 0))

NextJoypad ==
    \/ JoypadInput
    \/ JoypadLD_A_d8
    \/ JoypadLDH

SpecJoypad == InitJoypad /\ [][NextJoypad]_vars

(***************************************************************************)
(* The arithmetic specification: the 8-bit additions, subtractions and     *)
(* comparisons of A with a register, the byte at HL or an immediate byte,  *)
(* ADD HL,rr and DAA, from the states a program is in with A and the flags *)
(* at their edge values.  IME is clear and the VBLANK interrupt is enabled *)
(* and requested, so that a HALT leaves the HALT bug behind.  The programs *)
(* are one instruction, or HALT and one instruction, followed by DAAs.     *)
(***************************************************************************)
\* T-cycles of the frame the arithmetic programs are explored for
HorizonArith == 9

\* 0x00, 0x0F, 0x3A, 0x9A and 0xFF
ArithA == {0, 15, 58, 154, 255}

\* every value of the flags Z, N, H and C
ArithF == {16 * f : f \in 0..15}

\* the immediate bytes: 0x00, 0x01, 0x06 and 0xFF
ArithN == {0, 1, 6, 255}

\* the other registers; HL points at work RAM, at the cartridge or at IE
ArithRegs ==
    {[BC |-> 256, DE |-> 1, HL |-> 49152, SP |-> 65534],
     [BC |-> 65281, DE |-> 61441, HL |-> 4095, SP |-> 1],
     [BC |-> 3840, DE |-> 4096, HL |-> 65535, SP |-> 61441]}

\* what an uninitialised n holds
JunkVals == {0, 90}

\* ADD, ADC, SUB, SBC and CP with B, (HL) and A
RegisterOps == {first + r : first \in {128, 136, 144, 152, 184}, r \in {0, 6, 7}}

\* ADD, ADC, SUB, SBC and CP with d8
ImmediateOps == {198, 206, 214, 222, 254}

InitArith ==
    \E a \in ArithA, f \in ArithF, regs \in ArithRegs :
        /\ cpu = [AF |-> a * 256 + f, BC |-> regs.BC, DE |-> regs.DE,
                  HL |-> regs.HL, SP |-> regs.SP, PC |-> 336,
                  running |-> TRUE, halted |-> FALSE, halt_bug |-> FALSE,
                  IME |-> FALSE]
        /\ memory = [addr \in Addrs |->
                        IF addr = IE_REG THEN 1
                        ELSE IF addr = IF_REG THEN 1
                        ELSE IF addr = BOOT_REG THEN 1
                        ELSE IF addr = LCDC_REG THEN 128
                        ELSE IF addr = 49152 THEN 15
                        ELSE IF addr < 32768 THEN 0
                        ELSE PowerOnByte(addr)]
        /\ boot_rom_enabled = FALSE
        /\ dma = [running |-> FALSE, cycles |-> 0]
        /\ ppu = [mode |-> MODE_2_OAM_SCAN, cycle_counter |-> 0, ly |-> 0,
                  visible_objects |-> <<>>]
        /\ timer = [div_cycle_counter |-> 0, tima_cycle_counter |-> 0]
        /\ joypad = Released
        /\ cycles_this_frame = 0
        /\ frames = 0
        /\ last = NoIteration
        /\ prev = NoIteration

\* the program is at its first instruction, or at the one after a HALT
ArithTurn == last.kind = "none" \/ last.opcode = 118

ArithHALT ==
    /\ Running(HorizonArith)
    /\ ArithTurn
    /\ TickLoopOn(arithmetic_table, Rom(118, 0, 0))

ArithRegister ==
    \E opcode \in RegisterOps, junk \in JunkVals :
        /\ Running(HorizonArith)
        /\ ArithTurn
        /\ TickLoopOn(arithmetic_table, [Rom(opcode, 0, 0) EXCEPT !.junk = junk])

ArithImmediate ==
    \E opcode \in ImmediateOps, n \in ArithN :
        /\ Running(HorizonArith)
        /\ ArithTurn
        /\ TickLoopOn(arithmetic_table, Rom(opcode, n, 0))

ArithADD_HL_rr ==
    \E opcode \in {9, 25, 41, 57}, junk \in JunkVals :
        /\ Running(HorizonArith)
        /\ ArithTurn
        /\ TickLoopOn(arithmetic_table, [Rom(opcode, 0, 0) EXCEPT !.junk = junk])

ArithDAA ==
    /\ Running(HorizonArith)
    /\ TickLoopOn(arithmetic_table, Rom(39, 0, 0))

NextArith ==
    \/ ArithHALT
    \/ ArithRegister
    \/ ArithImmediate
    \/ ArithADD_HL_rr
    \/ ArithDAA

SpecArith == InitArith /\ [][NextArith]_vars

(***************************************************************************)
(* The decoding specification: the handlers that read their opcode again,  *)
(* run from the cartridge, from high RAM and from video RAM, with a DMA    *)
(* transfer running or not and the PPU in OAM_SCAN or in DRAWING (where    *)
(* the bus answers 0xFF for video RAM), after a HALT that leaves the HALT  *)
(* bug behind (IME clear, VBLANK enabled and requested) or not             *)
(***************************************************************************)
\* T-cycles of the frame the decoding programs are explored for
HorizonDecode == 9

\* where the program is and what the bus does to it
DecodePlaces ==
    {[pc |-> 336, transfer |-> FALSE, mode |-> MODE_2_OAM_SCAN],
     [pc |-> 336, transfer |-> TRUE, mode |-> MODE_2_OAM_SCAN],
     [pc |-> 65424, transfer |-> TRUE, mode |-> MODE_2_OAM_SCAN],
     [pc |-> 36864, transfer |-> FALSE, mode |-> MODE_2_OAM_SCAN],
     [pc |-> 36864, transfer |-> FALSE, mode |-> MODE_3_DRAWING]}

InitDecode ==
    \E place \in DecodePlaces, requested \in 0..1 :
        /\ cpu = [AF |-> 4608, BC |-> 13398, DE |-> 30874, HL |-> 49152,
                  SP |-> 65410, PC |-> place.pc, running |-> TRUE,
                  halted |-> FALSE, halt_bug |-> FALSE, IME |-> FALSE]
        /\ memory = [addr \in Addrs |->
                        IF addr = IE_REG THEN 1
                        ELSE IF addr = IF_REG THEN requested
                        ELSE IF addr = BOOT_REG THEN 1
                        ELSE IF addr = LCDC_REG THEN 128
                        ELSE IF addr = STAT_REG THEN place.mode
                        ELSE IF addr = DMA_REG THEN (IF place.transfer THEN 193 ELSE 0)
                        ELSE IF addr = 49152 THEN 15
                        ELSE IF addr < 32768 THEN 0
                        ELSE PowerOnByte(addr)]
        /\ boot_rom_enabled = FALSE
        /\ dma = [running |-> place.transfer,
                  cycles |-> IF place.transfer THEN 12 ELSE 0]
        /\ ppu = [mode |-> place.mode, cycle_counter |-> 0, ly |-> 0,
                  visible_objects |-> <<>>]
        /\ timer = [div_cycle_counter |-> 0, tima_cycle_counter |-> 0]
        /\ joypad = Released
        /\ cycles_this_frame = 0
        /\ frames = 0
        /\ last = [NoIteration EXCEPT !.since = IF place.transfer THEN 12 ELSE -1]
        /\ prev = NoIteration

DecodeHALT ==
    /\ Running(HorizonDecode)
    /\ TickLoopOn(arithmetic_table, Rom(118, 0, 0))

\* LD B,C, LD B,(HL), LD (HL),B and LD A,B
DecodeLD_r_r ==
    \E opcode \in {65, 70, 112, 120} :
        /\ Running(HorizonDecode)
        /\ TickLoopOn(arithmetic_table, Rom(opcode, 0, 0))

\* INC B, INC (HL) and INC A
DecodeINC_r ==
    \E opcode \in {4, 52, 60} :
        /\ Running(HorizonDecode)
        /\ TickLoopOn(arithmetic_table, Rom(opcode, 0, 0))

\* LD B,0x12 and LD A,0x12
DecodeLD_r_d8 ==
    \E opcode \in {6, 62} :
        /\ Running(HorizonDecode)
        /\ TickLoopOn(arithmetic_table, Rom(opcode, 18, 0))

\* ADD A,B, ADD HL,BC, RST 0x00 and RST 0x38
DecodeSwitch ==
    \E opcode \in {128, 9, 199, 255}, junk \in JunkVals :
        /\ Running(HorizonDecode)
        /\ TickLoopOn(arithmetic_table, [Rom(opcode, 0, 0) EXCEPT !.junk = junk])

NextDecode ==
    \/ DecodeHALT
    \/ DecodeLD_r_r
    \/ DecodeINC_r
    \/ DecodeLD_r_d8
    \/ DecodeSwitch

SpecDecode == InitDecode /\ [][NextDecode]_vars

(***************************************************************************)
(* The interrupt service specification: passes of the tick loop from the   *)
(* states a program is in with every combination of a few values of IE and *)
(* IF (the five sources, the three unused bits, none and all), IME set or  *)
(* clear, the CPU halted or not and a DMA transfer running or not, with    *)
(* the program in high RAM                                                 *)
(***************************************************************************)
\* T-cycles of the frame the service programs are explored for
HorizonService == 12

\* 0x00, one source each, all five, bit 5, bits 5..7, bits 5..7 and TIMER, all
ServiceBytes == {0, 1, 2, 4, 8, 16, 31, 32, 224, 228, 255}

InitService ==
    \E ie \in ServiceBytes, requested \in ServiceBytes, ime \in BOOLEAN,
       halted \in BOOLEAN, transfer \in BOOLEAN :
        /\ cpu = [AF |-> 0, BC |-> 0, DE |-> 0, HL |-> 0, SP |-> 65410,
                  PC |-> 65424, running |-> TRUE, halted |-> halted,
                  halt_bug |-> FALSE, IME |-> ime]
        /\ memory = [addr \in Addrs |->
                        IF addr = IE_REG THEN ie
                        ELSE IF addr = IF_REG THEN requested
                        ELSE IF addr = BOOT_REG THEN 1
                        ELSE IF addr = DMA_REG THEN (IF transfer THEN 193 ELSE 0)
                        ELSE IF addr < 32768 THEN 0
                        ELSE PowerOnByte(addr)]
        /\ boot_rom_enabled = FALSE
        /\ dma = [running |-> transfer, cycles |-> IF transfer THEN 12 ELSE 0]
        /\ ppu = [mode |-> MODE_2_OAM_SCAN, cycle_counter |-> 0, ly |-> 0,
                  visible_objects |-> <<>>]
        /\ timer = [div_cycle_counter |-> 0, tima_cycle_counter |-> 0]
        /\ joypad = Released
        /\ cycles_this_frame = 0
        /\ frames = 0
        /\ last = [NoIteration EXCEPT !.since = IF transfer THEN 12 ELSE -1]
        /\ prev = NoIteration

\* NOP, DI or EI at the fetch address
ServiceOneByte ==
    \E opcode \in {0, 243, 251} :
        /\ Running(HorizonService)
        /\ TickLoop(Rom(opcode, 0, 0))

\* LDH (0x0F),A with A = 0: the program withdraws the requests
ServiceLDH ==
    /\ Running(HorizonService)
    /\ TickLoop(Rom(224, Lo(IF_REG), 0))

NextService ==
    \/ ServiceOneByte
    \/ ServiceLDH

SpecService == InitService /\ [][NextService]_vars

(***************************************************************************)
(* The pace specification: one pass of the tick loop with every opcode of  *)
(* both tables, from the states a program is in with the PPU short of the  *)
(* end of each mode, the flags Z and C clear or set, the stack ready for a *)
(* push or for a pop, the CPU halted or not and the VBLANK interrupt       *)
(* pending or not, enabled or not; the turns at which the PPU draws a line *)
(* or scans OAM are taken with the flags clear and the CPU running         *)
(***************************************************************************)
\* the passes explored start before this T-cycle of the frame: one pass from
\* each state
HorizonPace == 1

\* mode, cycle_counter and ly: 4 cycles short of the end of OAM_SCAN, of the
\* last HBLANK of the picture and of the first line of VBLANK, and 24 cycles
\* short of the end of DRAWING
PacePhases ==
    { <<MODE_2_OAM_SCAN, 76, 0>>, <<MODE_3_DRAWING, 148, 0>>,
      <<MODE_0_HBLANK, 200, 143>>, <<MODE_1_VBLANK, 452, 144>> }

\* 4 cycles short of the turns at which ppu_step draws a line or scans OAM:
\* the end of DRAWING, of an HBLANK of the picture and of VBLANK
PaceTurns ==
    { <<MODE_3_DRAWING, 168, 143>>, <<MODE_0_HBLANK, 200, 0>>,
      <<MODE_1_VBLANK, 452, 153>> }

\* the two bytes after the opcode: the address 0xC000, which is also the
\* port 0xFF00 and a jump of 0, and the address 0x0002, the port 0xFF02
PaceOperands == { <<0, 192>>, <<2, 0>> }

InitPace ==
    \E phase \in PacePhases \cup PaceTurns, flags \in {0, 144},
       sp \in {65408, 65410}, halted \in BOOLEAN, ime \in BOOLEAN,
       requested \in 0..1 :
        /\ phase \in PaceTurns
              => flags = 0 /\ sp = 65410 /\ ~halted /\ (ime <=> requested = 1)
        /\ cpu = [AF |-> 23040 + flags, BC |-> 49152, DE |-> 49153, HL |-> 49152,
                  SP |-> sp, PC |-> 336, running |-> TRUE, halted |-> halted,
                  halt_bug |-> FALSE, IME |-> ime]
        /\ memory = [a \in Addrs |->
                        IF a = LCDC_REG THEN 128
                        ELSE IF a = STAT_REG
                             THEN phase[1] + (IF phase[3] = 0 THEN 4 ELSE 0)
                        ELSE IF a = LY_REG THEN phase[3]
                        ELSE IF a = IE_REG THEN 1
                        ELSE IF a = IF_REG THEN requested
                        ELSE IF a = BOOT_REG THEN 1
                        ELSE IF a = 65408 THEN 80
                        ELSE IF a = 65409 THEN 1
                        ELSE IF a < 32768 THEN 0
                        ELSE PowerOnByte(a)]
        /\ boot_rom_enabled = FALSE
        /\ dma = [running |-> FALSE, cycles |-> 0]
        /\ ppu = [mode |-> phase[1], cycle_counter |-> phase[2], ly |-> phase[3],
                  visible_objects |-> <<>>]
        /\ timer = [div_cycle_counter |-> 0, tima_cycle_counter |-> 0]
        /\ joypad = Released
        /\ cycles_this_frame = 0
        /\ frames = 0
        /\ last = NoIteration
        /\ prev = NoIteration

\* an opcode of instruction_table other than the CB prefix
PaceOpcode ==
    \E opcode \in (0..255) \ {203}, operand \in PaceOperands :
        /\ Running(HorizonPace)
        /\ TickLoopOn(full_table, Rom(opcode, operand[1], operand[2]))

\* the CB prefix and an opcode of cb_instruction_table
PaceCB ==
    \E opcode \in 0..255 :
        /\ Running(HorizonPace)
        /\ TickLoopOn(full_table, Rom(203, opcode, 0))

NextPace ==
    \/ PaceOpcode
    \/ PaceCB

SpecPace == InitPace /\ [][NextPace]_vars

(***************************************************************************)
(* The wake specification: a program that has enabled the VBLANK interrupt *)
(* in IE halts the CPU with HALT or STOP while nothing is pending, and the *)
(* tick loop runs on, frame after frame, until the CPU is no longer        *)
(* halted.  The frames of the loop are 33 T-cycles longer than those of    *)
(* the PPU, so the PPU is in any phase when a frame of the loop starts.    *)
(***************************************************************************)
\* mode, cycle_counter and ly of the PPU and cycles_this_frame when the
\* program halts: at the start of the picture, 8 cycles short of VBLANK, and
\* at the start of a VBLANK whose request the program has served already
WakePhases ==
    { <<MODE_2_OAM_SCAN, 0, 0, 0>>, <<MODE_0_HBLANK, 196, 143, 0>>,
      <<MODE_1_VBLANK, 0, 144, 64>> }

InitWake ==
    \E phase \in WakePhases, ime \in BOOLEAN :
        /\ cpu = [AF |-> 0, BC |-> 0, DE |-> 0, HL |-> 0, SP |-> 65410,
                  PC |-> 336, running |-> TRUE, halted |-> FALSE,
                  halt_bug |-> FALSE, IME |-> ime]
        /\ memory = [a \in Addrs |->
                        IF a = LCDC_REG THEN 128
                        ELSE IF a = STAT_REG
                             THEN phase[1] + (IF phase[3] = 0 THEN 4 ELSE 0)
                        ELSE IF a = LY_REG THEN phase[3]
                        ELSE IF a = IE_REG THEN 1
                        ELSE IF a = IF_REG THEN 0
                        ELSE IF a = BOOT_REG THEN 1
                        ELSE IF a < 32768 THEN 0
                        ELSE PowerOnByte(a)]
        /\ boot_rom_enabled = FALSE
        /\ dma = [running |-> FALSE, cycles |-> 0]
        /\ ppu = [mode |-> phase[1], cycle_counter |-> phase[2], ly |-> phase[3],
                  visible_objects |-> <<>>]
        /\ timer = [div_cycle_counter |-> 0, tima_cycle_counter |-> 0]
        /\ joypad = Released
        /\ cycles_this_frame = phase[4]
        /\ frames = 0
        /\ last = NoIteration
        /\ prev = NoIteration

\* the program's HALT, or its STOP with the byte that follows it
WakeHALT ==
    \E opcode \in {118, 16} :
        /\ last.kind = "none"
        /\ TickLoopOn(full_table, Rom(opcode, 0, 0))

\* a pass of the loop that finds the CPU halted; when handleInterrupts wakes
\* it, the pass goes on to run the NOP at the fetch address
WakeHalted ==
    /\ cpu.running /\ cpu.halted
    /\ cycles_this_frame < FrameLimit
    /\ TickLoopOn(full_table, Rom(0, 0, 0))

NextWake ==
    \/ WakeHALT
    \/ WakeHalted
    \/ FrameEnd

SpecWake == InitWake /\ [][NextWake]_vars

WakePass ==
    \/ WakeHALT
    \/ WakeHalted

\* ENABLED <<WakePass>>_vars written out: the guards of the two actions; a
\* pass of these programs always changes cycles_this_frame and touches
\* tracked bytes only
WakePassEnabled ==
    \/ last.kind = "none"
    \/ cpu.running /\ cpu.halted /\ cycles_this_frame < FrameLimit

\* the loops of main() go on for as long as cpu.running holds: weak fairness
\* of the end of a frame and of the passes of the tick loop
SpecWakeFair ==
    /\ SpecWake
    /\ WF_vars(FrameEnd)
    /\ []<>(~WakePassEnabled) \/ []<><<WakePass>>_vars

(***************************************************************************)
(* Properties                                                              *)
(***************************************************************************)
\* the machine at an instruction boundary, where main() calls handleInterrupts
AtBoundary == Machine(Rom(0, 0, 0))

\* C1: whatever IME is, when (memory[0xFFFF] & memory[0xFF0F]) = 0 the call
\* of handleInterrupts returns 0 cycles and leaves PC, SP, IME, halted, IF and
\* the stack memory as they were, a running DMA transfer included
C1_NothingPendingNoService ==
    LET untouched(h) == h.ret = 0 /\ h.cpu = cpu /\ h.memory = memory
    IN  And8(memory[IE_REG], memory[IF_REG]) = 0
            => untouched(handleInterrupts(AtBoundary))

\* the lowest set bit of p among bits 0..4, as a mask
LowestOf(p) ==
    IF Bit(p, 0) = 1 THEN 1
    ELSE IF Bit(p, 1) = 1 THEN 2
    ELSE IF Bit(p, 2) = 1 THEN 4
    ELSE IF Bit(p, 3) = 1 THEN 8
    ELSE 16

VectorOf(mask) ==
    CASE mask = 1 -> 64
      [] mask = 2 -> 72
      [] mask = 4 -> 80
      [] mask = 8 -> 88
      [] OTHER -> 96

\* C2: called with IME set and pending = IE & IF with a bit among 0..4 set,
\* handleInterrupts clears IME, takes 2 from SP, has the old PC at SP (low)
\* and SP + 1 (high), clears in IF the lowest pending bit and no other, sets
\* PC to the vector of that bit and returns 20
C2_ServesLowestPending ==
    LET served(h, mask) ==
            /\ h.ret = 20
            /\ ~h.cpu.IME
            /\ h.cpu.SP = W16(cpu.SP + 65534)
            /\ Stored(h, h.cpu.SP) = Lo(cpu.PC)
            /\ Stored(h, W16(h.cpu.SP + 1)) = Hi(cpu.PC)
            /\ h.memory[IF_REG] = Clear8(memory[IF_REG], mask)
            /\ h.cpu.PC = VectorOf(mask)
        on(pending) ==
            cpu.IME /\ And8(pending, 31) # 0
                => served(handleInterrupts(AtBoundary), LowestOf(pending))
    IN  on(And8(memory[IE_REG], memory[IF_REG]))

\* C3: every pass of the tick loop advances cycles_this_frame, the PPU, the
\* timer and the DMA unit by the cycles of the interrupt service (0 or 20)
\* plus 4 when the CPU is halted, the cost of the instruction otherwise
C3_CyclesAreServicePlusCost ==
    last.kind # "none" => last.cycles = last.irq + last.cost

\* C5: the low two bits of STAT are the PPU mode, whatever a program wrote
\* to 0xFF41
C5_StatModeBits == memory[STAT_REG] % 4 = ppu.mode

\* C6: bit 2 of STAT is set exactly when LY = LYC, at power-on too
C6_CoincidenceBit == (ppu.ly = memory[LYC_REG]) <=> (Bit(memory[STAT_REG], 2) = 1)

\* C7: the LY register mirrors the line counter of the PPU, whatever a
\* program wrote to 0xFF44
C7_LyMirror == memory[LY_REG] = ppu.ly

\* bytes a program stores to a register that ignores the value
SomeBytes == {0, 2, 253, 255}

\* C9: after a write of any byte to DIV, a read of DIV returns 0, a running
\* DMA transfer included
C9_DivReadsZero ==
    \A v \in SomeBytes : ReadMem(WriteMem(AtBoundary, DIV_REG, v), DIV_REG) = 0

\* C9 as the code has it: after a write of any byte to DIV, a read of DIV
\* returns 0 when no DMA transfer is running, and 0xFF while one is
C9_DivReadsZeroOutsideDma ==
    \A v \in SomeBytes :
        ReadMem(WriteMem(AtBoundary, DIV_REG, v), DIV_REG)
            = IF dma.running THEN 255 ELSE 0

\* a program has just stored a nonzero A to DIV with no transfer running
C9_DivWritten ==
    /\ last.kind = "exec" /\ last.opcode = 224 /\ last.lo = Lo(DIV_REG)
    /\ last.at.AF \div 256 = 253
    /\ ~last.at.dma /\ ~dma.running
    /\ ReadMem(AtBoundary, DIV_REG) = 0

\* C4: the low nibble of F is zero at every instruction boundary, after
\* power-on and after every handler that assigns AF, POP AF of arbitrary
\* stack bytes included
C4_FlagsLowNibbleZero == cpu.AF % 16 = 0

\* POP AF has taken 0xFF for F and 0x12 for A
C4_PoppedAllOnes == last.kind = "pop_af" /\ last.lo = 255 /\ cpu.AF = 4848

\* C8: 0 <= ppu.ly <= 153 at every instruction boundary, whatever costs the
\* tick loop hands to ppu_step
C8_LyInRange == ppu.ly >= 0 /\ ppu.ly <= 153

\* line 153 has ended and the PPU is back on line 0
C8_WrappedToLineZero ==
    /\ ppu.ly = 0 /\ ppu.mode = MODE_2_OAM_SCAN
    /\ frames = 0 /\ cycles_this_frame >= 154 * 456

\* the last two passes of the loop executed the opcodes push and pop
PushedThenPopped(push, pop) ==
    /\ prev.kind = "exec" /\ prev.opcode = push /\ prev.irq = 0
    /\ last.kind = "exec" /\ last.opcode = pop /\ last.irq = 0

\* C10: for each pair rr of BC, DE, HL, AF, PUSH rr then POP rr leaves rr (AF
\* with the low nibble of F masked) and SP as they were, wherever SP points
C10_PushPopRestores ==
    /\ PushedThenPopped(197, 193) => cpu.BC = prev.at.BC /\ cpu.SP = prev.at.SP
    /\ PushedThenPopped(213, 209) => cpu.DE = prev.at.DE /\ cpu.SP = prev.at.SP
    /\ PushedThenPopped(229, 225) => cpu.HL = prev.at.HL /\ cpu.SP = prev.at.SP
    /\ PushedThenPopped(245, 241)
           => cpu.AF = And8(prev.at.AF, 65520) /\ cpu.SP = prev.at.SP

\* both stack bytes are memory that stores what PUSH writes and gives it back
\* to POP: not under the mapped boot ROM, not in VRAM or OAM while the bus
\* gate is closed at the PUSH or at the POP, not an I/O register, and in
\* high RAM when a DMA transfer runs at the POP
OrdinaryStack ==
    LET gated(at, a) ==
            /\ at.lcdc \div 128 = 1
            /\ \/ InVRAM(a) /\ at.stat % 4 = MODE_3_DRAWING
               \/ InOAM(a) /\ at.stat % 4 \in {MODE_2_OAM_SCAN, MODE_3_DRAWING}
        ordinary(a) ==
            /\ ~(last.at.boot /\ a < 256)
            /\ ~gated(prev.at, a)
            /\ ~gated(last.at, a)
            /\ ~(a >= 65280 /\ a <= 65407)
            /\ ~(last.at.dma /\ ~InHRAM(a))
    IN  ordinary(W16(prev.at.SP + 65535)) /\ ordinary(W16(prev.at.SP + 65534))

\* C10 as the code has it: PUSH rr then POP rr leaves SP as it was, and
\* leaves rr (AF with the low nibble of F masked) as it was when both stack
\* bytes are ordinary memory: outside the boot-ROM shadow while it is
\* mapped, outside VRAM while the LCD is on in mode 3 and outside OAM while
\* it is on in mode 2 or 3 (at
\* the PUSH or at the POP), outside the I/O registers 0xFF00-0xFF7F, and in
\* high RAM 0xFF80-0xFFFE if a DMA transfer is running at the POP
C10_PushPopRestoresOrdinary ==
    /\ \A i \in 0..3 : PushedThenPopped(197 + 16 * i, 193 + 16 * i) => cpu.SP = prev.at.SP
    /\ OrdinaryStack =>
        /\ PushedThenPopped(197, 193) => cpu.BC = prev.at.BC
        /\ PushedThenPopped(213, 209) => cpu.DE = prev.at.DE
        /\ PushedThenPopped(229, 225) => cpu.HL = prev.at.HL
        /\ PushedThenPopped(245, 241) => cpu.AF = And8(prev.at.AF, 65520)

\* BC has come back from a stack in work RAM
C10_RestoredFromWorkRam ==
    /\ PushedThenPopped(197, 193)
    /\ OrdinaryStack
    /\ prev.at.SP = 49154 /\ cpu.SP = 49154
    /\ memory[49152] = 52 /\ memory[49153] = 18
    /\ cpu.BC = 4660

\* pages a program transfers from: VRAM and work RAM
DmaPages == {128, 192}

\* C11: a write of v to 0xFF46 copies the bytes at v * 256 to OAM at once,
\* in every PPU mode and with the LCD on or off, sets dma.running and
\* resets the DMA cycle counter; the pass of the loop that executes the
\* store ends with the copy in OAM and the transfer running
C11_DmaWriteCopies ==
    LET copied(w, v) ==
            /\ w.ok
            /\ w.dma = [running |-> TRUE, cycles |-> 0]
            /\ w.memory[65024] = memory[v * 256]
            /\ w.memory[65025] = memory[v * 256 + 1]
        stored(page) ==
            /\ dma = [running |-> TRUE, cycles |-> last.cycles]
            /\ memory[65024] = memory[page * 256]
            /\ memory[65025] = memory[page * 256 + 1]
    IN  /\ \A v \in DmaPages : copied(WriteMem(AtBoundary, DMA_REG, v), v)
        /\ last.kind = "exec" /\ last.opcode = 234 /\ last.lo = Lo(DMA_REG)
               /\ last.hi = Hi(DMA_REG) /\ last.irq = 0
               /\ last.at.AF \div 256 \in DmaPages
               => stored(last.at.AF \div 256)

\* a store to 0xFF46 has copied work RAM to OAM while the OAM gate was closed
C11_CopiedWhileGated ==
    /\ last.kind = "exec" /\ last.opcode = 234 /\ last.lo = Lo(DMA_REG)
    /\ last.hi = Hi(DMA_REG) /\ last.at.AF \div 256 = 192
    /\ last.at.lcdc \div 128 = 1 /\ last.at.stat % 4 = MODE_3_DRAWING
    /\ ~last.at.dma
    /\ memory[65024] = 17 /\ memory[65025] = 34
    /\ dma = [running |-> TRUE, cycles |-> 16]

\* the OAM or VRAM gate of the bus is closed for addr
Gated(addr) ==
    /\ memory[LCDC_REG] \div 128 = 1
    /\ \/ InVRAM(addr) /\ memory[STAT_REG] % 4 = MODE_3_DRAWING
       \/ InOAM(addr) /\ memory[STAT_REG] % 4 \in {MODE_2_OAM_SCAN, MODE_3_DRAWING}

\* the byte the bus answers with when no gate and no lockout applies
Underlying(addr) ==
    IF boot_rom_enabled /\ addr < 256 THEN boot[addr]
    ELSE IF addr = P1_REG THEN JoypadRead(AtBoundary)
    ELSE memory[addr]

\* the last pass of the loop executed LD A,(addr)
Loaded(addr) ==
    /\ last.kind = "exec" /\ last.opcode = 250
    /\ last.lo = Lo(addr) /\ last.hi = Hi(addr) /\ last.irq = 0

\* C12: while dma.running, ReadMem returns 0xFF for every address below
\* 0xFF80 or above 0xFFFE, whatever is stored or shadowed there, and the
\* stored byte for 0xFF80..0xFFFE; while no transfer runs, a read that no
\* PPU gate blocks returns the byte behind the address
C12_DmaLockout ==
    /\ dma.running =>
           \A a \in Addrs :
               ReadMem(AtBoundary, a) = IF a >= 65408 /\ a <= 65534 THEN memory[a] ELSE 255
    /\ ~dma.running =>
           \A a \in Addrs : ~Gated(a) => ReadMem(AtBoundary, a) = Underlying(a)
    /\ \A a \in BusAddrs :
           Loaded(a) /\ last.at.dma =>
               Hi(cpu.AF) = IF a >= 65408 /\ a <= 65534 THEN memory[a] ELSE 255

\* with a transfer running, a load from work RAM has put 0xFF in A while
\* the byte stored there is 0x11
C12_LockedLoad ==
    /\ Loaded(49152) /\ last.at.dma
    /\ Hi(cpu.AF) = 255 /\ memory[49152] = 17

\* C13: after a write to 0xFF46 the lockout lasts 640 T-cycles: while fewer
\* have been stepped since the last write, dma.running is true and a read
\* of 0xC000 returns 0xFF; from the first boundary at which 640 or more have
\* been stepped dma.running is false; a write during the lockout starts the
\* count again from 0
C13_LockoutLasts640 ==
    /\ last.since >= 0 /\ last.since < 640
           => dma.running /\ ReadMem(AtBoundary, 49152) = 255
    /\ last.since >= 640 => ~dma.running /\ ReadMem(AtBoundary, 49152) = memory[49152]
    /\ last.kind = "exec" /\ last.opcode = 224 /\ last.lo = Lo(DMA_REG)
           => last.since = last.cycles /\ dma.cycles = last.cycles

\* the routine has executed two stores to 0xFF46 and one NOP (its 5 bytes,
\* and a cycle count of 4 modulo 12), the second store before the first
\* transfer was over, and the lockout has just ended, 640 T-cycles after that
\* store and not before
C13_EndedAfterRestart ==
    /\ cpu.PC = 65424 + 5 /\ cycles_this_frame % 12 = 4
    /\ cycles_this_frame < 2 * 640
    /\ last.opcode = 0 /\ prev.since = 636 /\ last.since = 640
    /\ ~dma.running /\ ReadMem(AtBoundary, 49152) = 17

\* the last pass of the loop executed LD (addr),A
StoredTo(addr) ==
    /\ last.kind = "exec" /\ last.opcode = 234
    /\ last.lo = Lo(addr) /\ last.hi = Hi(addr) /\ last.irq = 0

\* C14: with the LCD on and the PPU in DRAWING mode every read of VRAM
\* returns 0xFF and every write to VRAM leaves memory as it was; in every
\* other mode, or with the LCD off, a read of VRAM returns the stored byte
\* and a write is stored
C14_VramGate ==
    LET dropped(w) == w.memory = memory
        closed(a) ==
            /\ ReadMem(AtBoundary, a) = 255
            /\ \A v \in SomeBytes : dropped(WriteMem(AtBoundary, a, v))
        open(a) ==
            /\ ReadMem(AtBoundary, a) = memory[a]
            /\ \A v \in SomeBytes : WriteMem(AtBoundary, a, v).memory[a] = v
    IN  \A a \in {32768, 32769} :
            IF memory[LCDC_REG] \div 128 = 1 /\ ppu.mode = MODE_3_DRAWING
            THEN closed(a) ELSE open(a)

\* C15: with the LCD on and the PPU in OAM_SCAN or DRAWING mode every read
\* of OAM returns 0xFF and every write to OAM leaves OAM as it was; during
\* HBLANK and VBLANK, or with the LCD off, reads and writes of OAM go through
C15_OamGate ==
    LET dropped(w) == w.memory = memory
        closed(a) ==
            /\ ReadMem(AtBoundary, a) = 255
            /\ \A v \in SomeBytes : dropped(WriteMem(AtBoundary, a, v))
        open(a) ==
            /\ ReadMem(AtBoundary, a) = memory[a]
            /\ \A v \in SomeBytes : WriteMem(AtBoundary, a, v).memory[a] = v
    IN  \A a \in {65024, 65025} :
            IF memory[LCDC_REG] \div 128 = 1
               /\ ppu.mode \in {MODE_2_OAM_SCAN, MODE_3_DRAWING}
            THEN closed(a) ELSE open(a)

\* C16: a write to the cartridge area 0x0000..0x7FFF leaves the byte there
\* as it was, whatever the value
C16_RomWritesIgnored ==
    \A a \in {240, 241} :
        \A v \in SomeBytes : WriteMem(AtBoundary, a, v).memory[a] = memory[a]

\* the last pass of the loop executed LDH (0x50),A
BootRegWritten ==
    last.kind = "exec" /\ last.opcode = 224 /\ last.lo = Lo(BOOT_REG)

\* C17: boot_rom_enabled is true at power-on, false after the first write of
\* any value to 0xFF50 and from then on; while it is true a read below
\* 0x0100 returns boot[addr], once it is false it returns memory[addr], in
\* every reachable state
C17_BootRomShadow ==
    /\ last.kind = "none" => boot_rom_enabled
    /\ last.kind # "none" => (boot_rom_enabled <=> last.at.boot /\ ~BootRegWritten)
    /\ \A a \in {240, 241} :
           ReadMem(AtBoundary, a) = IF boot_rom_enabled THEN boot[a] ELSE memory[a]

\* C17 as the code has it: boot_rom_enabled is true at power-on, false after
\* the first write of any value to 0xFF50 and from then on; when no DMA
\* transfer is running, a read below 0x0100 returns boot[addr] while it is
\* true and memory[addr] once it is false (0xFF while a transfer is running)
C17_BootRomShadowOutsideDma ==
    /\ last.kind = "none" => boot_rom_enabled
    /\ last.kind # "none" => (boot_rom_enabled <=> last.at.boot /\ ~BootRegWritten)
    /\ \A a \in {240, 241} :
           ReadMem(AtBoundary, a) = IF dma.running THEN 255
                                    ELSE IF boot_rom_enabled THEN boot[a]
                                    ELSE memory[a]

\* the program has just unmapped the boot ROM: the read below 0x0100 that
\* returned the boot image now returns the cartridge byte
C17_BootRomUnmapped ==
    /\ BootRegWritten /\ last.at.boot /\ ~boot_rom_enabled
    /\ ~dma.running
    /\ ReadMem(AtBoundary, 240) = memory[240] /\ memory[240] # boot[240]

\* T-cycles per TIMA increment for the clock select in TAC bits 1..0
Threshold(TAC) ==
    CASE TAC % 4 = 0 -> 1024
      [] TAC % 4 = 1 -> 16
      [] TAC % 4 = 2 -> 64
      [] TAC % 4 = 3 -> 256

RECURSIVE Counted(_, _, _)
\* TIMA after k increments, each wrap from 0xFF reloading it from tma
Counted(tima, tma, k) ==
    IF k = 0 THEN tima
    ELSE Counted(IF tima = 255 THEN tma ELSE tima + 1, tma, k - 1)

RECURSIVE Wraps(_, _, _)
\* one of k increments of TIMA wraps it
Wraps(tima, tma, k) ==
    k > 0 /\ (tima = 255 \/ Wraps(tima + 1, tma, k - 1))

\* C18: with TAC bit 2 set, timer_step(c) increments TIMA once for each
\* threshold (1024, 16, 64 or 256 T-cycles for TAC bits 1..0 = 00, 01, 10,
\* 11) the accumulator holds after c is added to it and keeps the remainder;
\* each increment that wraps TIMA reloads it from TMA and sets bit 2 of IF,
\* also when one step makes several increments
C18_TimaCounts ==
    LET counted(r, tima, tma, flags, total, th) ==
            /\ r.memory[TIMA_REG] = Counted(tima, tma, total \div th)
            /\ r.timer.tima_cycle_counter = total % th
            /\ r.memory[IF_REG] = IF Wraps(tima, tma, total \div th)
                                  THEN Or8(flags, 4) ELSE flags
            /\ r.memory[TMA_REG] = tma
        after(c) ==
            counted(timer_step(AtBoundary, c), memory[TIMA_REG], memory[TMA_REG],
                    memory[IF_REG], timer.tima_cycle_counter + c,
                    Threshold(memory[TAC_REG]))
    IN  /\ Bit(memory[TAC_REG], 2) = 1 => \A c \in StepCycles : after(c)
        /\ last.kind = "timer_step" /\ Bit(memory[TAC_REG], 2) = 1
               => counted(AtBoundary, prev.tima, memory[TMA_REG], prev.flags,
                          prev.acc + last.cycles, Threshold(memory[TAC_REG]))

\* one step of 24 T-cycles at 16 per increment, from TIMA = 0xFF with 12 in
\* the accumulator, has wrapped TIMA, reloaded it from TMA = 0xAB, counted
\* once more and requested the timer interrupt
C18_WrappedAndCounted ==
    /\ last.kind = "timer_step" /\ last.cycles = 24
    /\ memory[TAC_REG] = 5 /\ memory[TMA_REG] = 171
    /\ prev.tima = 255 /\ prev.acc = 12 /\ prev.flags = 0
    /\ memory[TIMA_REG] = 172 /\ timer.tima_cycle_counter = 4
    /\ memory[IF_REG] = 4

\* C19: while TAC bit 2 is clear, timer_step changes neither TIMA nor the
\* T-cycle accumulator of TIMA
C19_DisabledTimerIdle ==
    LET idle(r) ==
            /\ r.memory[TIMA_REG] = memory[TIMA_REG]
            /\ r.timer.tima_cycle_counter = timer.tima_cycle_counter
    IN  Bit(memory[TAC_REG], 2) = 0 => \A c \in StepCycles : idle(timer_step(AtBoundary, c))

\* C20: from TMA = 0xAB, TIMA = 0xFE, TAC = 0x05, IME = 1, IE = 0x04, IF = 0
\* and a program of NOPs, TIMA wraps when 32 T-cycles have been stepped; the
\* NOP during which it wraps ends with the request pending and nothing
\* served; the interrupt service at that boundary leaves PC = 0x0050, SP
\* lower by 2, the PC of the NOP that would have run on top of the stack,
\* TIMA = 0xAB and IF bit 2 clear, and so the next pass of the loop does
C20_OverflowTakesVector ==
    LET served(h) ==
            /\ h.ret = 20
            /\ h.cpu.PC = 80
            /\ h.cpu.SP = W16(cpu.SP + 65534)
            /\ Stored(h, h.cpu.SP) = Lo(cpu.PC)
            /\ Stored(h, W16(h.cpu.SP + 1)) = Hi(cpu.PC)
            /\ h.memory[TIMA_REG] = 171
            /\ Bit(h.memory[IF_REG], 2) = 0
    IN  /\ cycles_this_frame < 32
               => /\ memory[TIMA_REG] = 254 + cycles_this_frame \div 16
                  /\ memory[IF_REG] = 0
                  /\ last.irq = 0
        /\ cycles_this_frame = 32
               => /\ memory[TIMA_REG] = 171 /\ memory[IF_REG] = 4
                  /\ last.irq = 0 /\ cpu.IME
                  /\ cpu.SP \in OverflowTops
                  /\ cpu.PC - 8 \in OverflowStarts
                  /\ served(handleInterrupts(AtBoundary))
        /\ last.irq = 20
               => /\ prev.irq = 0 /\ cpu.PC = 81 /\ ~cpu.IME
                  /\ W16(cpu.SP + 2) \in OverflowTops
                  /\ Stored(AtBoundary, cpu.SP) + 256 * Stored(AtBoundary, W16(cpu.SP + 1)) - 8
                        \in OverflowStarts
                  /\ memory[TIMA_REG] = 171 /\ memory[IF_REG] = 0

\* the timer interrupt has been served with the stack in work RAM: the pass
\* after the wrap pushed 0x0158 and ran the NOP at 0x0050
C20_TimerVectorTaken ==
    /\ last.irq = 20 /\ last.kind = "exec" /\ last.opcode = 0
    /\ cpu.PC = 81 /\ cpu.SP = 49152
    /\ memory[49152] = 88 /\ memory[49153] = 1
    /\ memory[TIMA_REG] = 171 /\ memory[IF_REG] = 0

\* the 16-bit value on top of the stack
StackTop == Stored(AtBoundary, cpu.SP) + 256 * Stored(AtBoundary, W16(cpu.SP + 1))

\* C21: a HALT executed with IME clear and IE & IF # 0 sets halt_bug and does
\* not halt; with halt_bug set, FetchByte returns the byte ReadMem has at PC,
\* leaves PC where it is and clears halt_bug, and the FetchByte after it
\* returns that byte again and moves PC on; so the pass after such a HALT
\* reads the byte after the HALT twice: a one-byte instruction leaves PC on
\* itself, LD A,d8 takes its operand from the address of its opcode, and the
\* RST a locked bus yields pushes its own address
C21_HaltBug ==
    LET twice(m, first, second) ==
            /\ first.v = ReadMem(m, cpu.PC)
            /\ first.s.cpu.PC = cpu.PC
            /\ ~first.s.cpu.halt_bug
            /\ second.v = first.v
            /\ second.s.cpu.PC = W16(cpu.PC + 1)
        again(m, first) == twice(m, first, FetchByte(first.s))
        fetch(m) == again(m, FetchByte(m))
    IN  /\ last.kind = "exec" /\ last.opcode = 118
            /\ ~last.at.IME /\ last.at.pending # 0
               => cpu.halt_bug /\ ~cpu.halted
        /\ cpu.halt_bug => \A op \in SomeBytes : fetch(Machine(Rom(op, 0, 0)))
        /\ last.kind = "exec" /\ last.at.halt_bug
               => /\ last.opcode \in {0, 118, 251} => cpu.PC = last.at.PC
                  /\ last.opcode = 62 => cpu.PC = W16(last.at.PC + 1)
                  /\ last.opcode = 255 => cpu.PC = 56 /\ StackTop = last.at.PC

\* the pass after a HALT that hit the HALT bug has run LD A,d8 and taken the
\* operand from the address of the opcode
C21_OperandAtOpcode ==
    /\ prev.kind = "exec" /\ prev.opcode = 118
    /\ ~prev.at.IME /\ prev.at.pending # 0
    /\ last.kind = "exec" /\ last.at.halt_bug /\ last.opcode = 62
    /\ last.at.PC = W16(prev.at.PC + 1)
    /\ cpu.PC = W16(last.at.PC + 1)
    /\ ~cpu.halt_bug /\ ~cpu.halted

\* C22: if halt_bug is set at an instruction boundary, it is clear at the
\* next one, whatever IME, IE, IF, the DMA unit and halted are
C22_BugClearedAtNextBoundary ==
    last.kind # "none" /\ last.at.halt_bug => ~cpu.halt_bug

\* C22 as the code has it: if halt_bug is set at an instruction boundary, the
\* fetch of the next pass clears it, and it is clear at the next boundary
\* unless the instruction fetched is again a HALT executed with IME clear and
\* IE & IF # 0, which sets it again
C22_BugClearedUnlessHaltAgain ==
    last.kind # "none" /\ last.at.halt_bug
        => /\ last.kind = "exec"
           /\ cpu.halt_bug <=> /\ last.opcode = 118
                               /\ ~last.at.IME
                               /\ last.at.pending # 0

\* halt_bug was set at the last boundary and the NOP fetched since cleared it
C22_ClearedByNextFetch ==
    /\ last.kind = "exec" /\ last.at.halt_bug /\ last.opcode = 0
    /\ prev.kind = "exec" /\ prev.opcode = 118
    /\ cpu.PC = last.at.PC
    /\ ~cpu.halt_bug

\* C23: with IME clear, IE = 0x01 and IF = 0 a HALT halts the CPU with PC on
\* the instruction after it, and the halted passes leave PC and SP alone; once
\* IF is 0x01, the call of handleInterrupts at the next boundary clears halted
\* and leaves IME clear, SP, the stack and every other byte of memory (IF,
\* still 0x01, included) and PC as they were, returning 0: the pass fetches
\* the instruction after the HALT and no vector is taken
C23_WakeWithoutService ==
    LET woken(h) ==
            /\ h.ret = 0
            /\ ~h.cpu.halted /\ ~h.cpu.IME
            /\ h.cpu.SP = cpu.SP /\ h.cpu.PC = cpu.PC
            /\ h.memory = memory /\ h.memory[IF_REG] = 1
    IN  /\ last.kind = "exec" /\ last.opcode = 118
            /\ ~last.at.IME /\ memory[IE_REG] = 1 /\ last.at.pending = 0
               => cpu.halted /\ ~cpu.IME /\ cpu.PC = W16(last.at.PC + 1)
        /\ last.kind = "halted"
               => cpu.halted /\ cpu.PC = last.at.PC /\ cpu.SP = last.at.SP
        /\ cpu.halted /\ ~cpu.IME /\ memory[IE_REG] = 1 /\ memory[IF_REG] = 1
               => woken(handleInterrupts(AtBoundary))
        /\ prev.kind = "halted" /\ last.kind = "exec" /\ last.irq = 0
               => /\ ~last.at.IME
                  /\ last.at.PC = prev.at.PC /\ last.at.SP = prev.at.SP
                  /\ last.at.pending # 0 \/ last.at.dma

\* VBLANK was requested while the CPU was halted with IME clear, and the next
\* pass woke it and ran the NOP after the HALT with nothing pushed
C23_WokenByVblank ==
    /\ prev.kind = "halted" /\ ~prev.at.dma /\ prev.at.pending = 0
    /\ last.kind = "exec" /\ last.irq = 0 /\ last.opcode = 0
    /\ last.at.pending = 1 /\ ~last.at.dma
    /\ last.at.PC = 337 /\ cpu.PC = 338 /\ cpu.SP = 65410
    /\ ~cpu.halted /\ ~cpu.IME
    /\ memory[IE_REG] = 1 /\ memory[IF_REG] = 1
    /\ ppu.mode = MODE_1_VBLANK

\* T-cycles a mode lasts (for VBLANK, one of its lines)
ModeLength(mode) ==
    CASE mode = MODE_2_OAM_SCAN -> 80
      [] mode = MODE_3_DRAWING -> 172
      [] mode = MODE_0_HBLANK -> 204
      [] OTHER -> 456

\* C24: a call of ppu_step adds the cycles to the counter of the mode; short
\* of 80 (OAM_SCAN), 172 (DRAWING), 204 (HBLANK) or 456 (a line of VBLANK) it
\* leaves mode and LY alone; at or past it, it keeps the surplus as the
\* counter of the next mode and goes from OAM_SCAN to DRAWING, from DRAWING
\* to HBLANK, from HBLANK, with LY incremented, to OAM_SCAN if LY is below 144
\* and to VBLANK at LY = 144, and in VBLANK to the next line, and after line
\* 153 to OAM_SCAN with LY = 0
C24_PpuTransitions ==
    LET moved(mode, ly) == ppu.mode = mode /\ ppu.ly = ly
        next(cc, length) ==
            IF cc < length
            THEN moved(prev.mode, prev.ly) /\ ppu.cycle_counter = cc
            ELSE /\ ppu.cycle_counter = cc - length
                 /\ CASE prev.mode = MODE_2_OAM_SCAN -> moved(MODE_3_DRAWING, prev.ly)
                      [] prev.mode = MODE_3_DRAWING -> moved(MODE_0_HBLANK, prev.ly)
                      [] prev.mode = MODE_0_HBLANK ->
                           IF prev.ly + 1 < 144
                           THEN moved(MODE_2_OAM_SCAN, prev.ly + 1)
                           ELSE moved(MODE_1_VBLANK, 144)
                      [] OTHER ->
                           IF prev.ly = 153
                           THEN moved(MODE_2_OAM_SCAN, 0)
                           ELSE moved(MODE_1_VBLANK, prev.ly + 1)
    IN  last.kind = "ppu_step"
            => next(prev.acc + last.cycles, ModeLength(prev.mode))

\* the call that ended line 143 entered VBLANK on line 144 with the 16 cycles
\* past the end of HBLANK
C24_SurplusIntoVblank ==
    /\ last.kind = "ppu_step" /\ last.cycles = 24
    /\ prev.mode = MODE_0_HBLANK /\ prev.ly = 143 /\ prev.acc = 196
    /\ ppu.mode = MODE_1_VBLANK /\ ppu.ly = 144 /\ ppu.cycle_counter = 16

\* C25: the call of ppu_step that enters VBLANK, LY becoming 144, sets bit 0
\* of IF, and bit 1 of IF as well when bit 4 of STAT is set; every other call
\* of ppu_step leaves bit 0 of IF as it was, and no call clears a bit of IF
C25_VblankRequest ==
    LET IF_ == memory[IF_REG]
        entered == prev.mode = MODE_0_HBLANK /\ ppu.mode = MODE_1_VBLANK
    IN  last.kind = "ppu_step"
            => /\ entered <=> prev.ly = 143 /\ ppu.ly = 144
               /\ entered => /\ Bit(IF_, 0) = 1
                             /\ Bit(prev.stat, 4) = 1 => Bit(IF_, 1) = 1
               /\ ~entered => Bit(IF_, 0) = Bit(prev.flags, 0)
               /\ And8(IF_, prev.flags) = prev.flags

\* VBLANK was entered with the VBLANK source of STAT on and LYC elsewhere:
\* IF went from 0 to 0x03
C25_VblankAndStatRequested ==
    /\ last.kind = "ppu_step"
    /\ prev.mode = MODE_0_HBLANK /\ prev.ly = 143 /\ prev.flags = 0
    /\ And8(prev.stat, 120) = 16 /\ memory[LYC_REG] = 0
    /\ ppu.mode = MODE_1_VBLANK /\ ppu.ly = 144
    /\ memory[IF_REG] = 3

\* C26: at every instruction boundary the list of visible sprites has at most
\* 10 entries and is in non-decreasing order of X (byte 1 of an entry),
\* whatever order qsort leaves equal X in
C26_VisibleSortedAtMostTen ==
    LET list == ppu.visible_objects
    IN  /\ Len(list) <= 10
        /\ \A i \in 1..(Len(list) - 1) : list[i][2] <= list[i + 1][2]

\* the scan found twelve sprites on the line, kept the first ten (X from 96
\* down to 24) and sorted them
C26_TenOfTwelve ==
    /\ last.kind = "ppu_step"
    /\ prev.mode \in {MODE_0_HBLANK, MODE_1_VBLANK} /\ ppu.mode = MODE_2_OAM_SCAN
    /\ Len(ppu.visible_objects) = 10
    /\ ppu.visible_objects[1][2] = 24 /\ ppu.visible_objects[10][2] = 96
    /\ Stored(AtBoundary, 65024 + 4 * 11) - 16 <= ppu.ly

\* the last call of ppu_step entered OAM_SCAN, and so ran ppu_oam_scan
Scanned ==
    /\ last.kind = "ppu_step"
    /\ prev.mode \in {MODE_0_HBLANK, MODE_1_VBLANK} /\ ppu.mode = MODE_2_OAM_SCAN

\* the OAM indexes of the sprites on line LY
OnLine ==
    LET height == IF Bit(memory[LCDC_REG], 2) = 1 THEN 16 ELSE 8
        Y(i) == OamEntry(AtBoundary, i)[1]
    IN  {i \in 0..39 : ppu.ly >= Y(i) - 16 /\ ppu.ly < Y(i) - 16 + height}

\* the first ten of them in index order
FirstTen == {i \in OnLine : Cardinality({j \in OnLine : j < i}) < 10}

\* the place of sprite i in the stable order by X: after the sprites left of
\* it and after those at its X with a lower index
PlaceOf(i) ==
    LET X(k) == OamEntry(AtBoundary, k)[2]
    IN  1 + Cardinality({j \in FirstTen : X(j) < X(i) \/ (X(j) = X(i) /\ j < i)})

\* C27: ppu_oam_scan leaves in the list exactly the first ten entries of OAM,
\* in index order, that are on line LY (LY >= Y - 16 and LY < Y - 16 + height,
\* height 8 or 16 by LCDC bit 2), ordered by X ascending with entries of equal
\* X in OAM index order
C27_ScanIsStableSort ==
    Scanned
        => /\ Len(ppu.visible_objects) = Cardinality(FirstTen)
           /\ \A i \in FirstTen :
                  ppu.visible_objects[PlaceOf(i)] = OamEntry(AtBoundary, i)

\* the PPU registers as the program left them in memory
StoredRegisters ==
    [LCDC |-> memory[LCDC_REG], SCY |-> memory[65346], SCX |-> memory[65347],
     BGP |-> memory[65351], OBP0 |-> memory[65352], OBP1 |-> memory[65353],
     WY |-> memory[65354], WX |-> memory[65355]]

\* the i-th sprite of the visible list passes at x: it covers x, its colour
\* number is not 0, and it is not a low-priority sprite over a colour number
\* of the background or window that is not 0
Passes(i, x) ==
    LET obj == ppu.visible_objects[i]
        s == Machine(Rom(0, 0, 0))
    IN  /\ ObjCovers(obj, x)
        /\ obj_color_number(s, StoredRegisters, obj, x) # 0
        /\ ~(Bit(obj[4], 7) = 1
             /\ underlying_color_number(s, StoredRegisters, x) # 0)

\* the shade of the first sprite of the list that passes at x, and that of
\* the background or window when none does
WinningShade(x) ==
    LET s == Machine(Rom(0, 0, 0))
        passing == {i \in 1..Len(ppu.visible_objects) : Passes(i, x)}
        first == CHOOSE i \in passing : \A j \in passing : i <= j
        obj == ppu.visible_objects[first]
    IN  IF passing = {}
        THEN Shade(memory[65351], underlying_color_number(s, StoredRegisters, x))
        ELSE Shade(memory[IF Bit(obj[4], 4) = 0 THEN 65352 ELSE 65353],
                   obj_color_number(s, StoredRegisters, obj, x))

\* C28: on a line drawn with sprites enabled (LCDC bit 1), the shade handed to
\* the pixel callback for each x is that of the first sprite of the X-sorted
\* visible list that covers x, has a colour number other than 0 and is not a
\* low-priority sprite over a background or window colour number other than
\* 0, and the shade of the background or window when no sprite passes
C28_FirstPassingSpriteWins ==
    last.pixels # <<>> /\ Bit(memory[LCDC_REG], 1) = 1
        => \A x \in 0..(WINDOW_WIDTH - 1) : last.pixels[x + 1][3] = WinningShade(x)

\* the lines whose DRAWING has ended since LY last went back to 0: lines 0
\* to LinesDrawn - 1
LinesDrawn ==
    IF ppu.ly >= 144 THEN 144
    ELSE IF ppu.mode = MODE_0_HBLANK THEN ppu.ly + 1
    ELSE ppu.ly

\* C29: a pass of the tick loop that draws hands the pixel callback x = 0 to
\* 159 once each, in order, with y = LY <= 143 and a shade in 0..3; and in
\* each frame of the PPU (LY from 0 through 153 and back to 0) the renderer
\* has run once for each line whose DRAWING has ended, so once for each of
\* 0..143 by the time LY is 144, and never for a line y >= 144
C29_OncePerPixel ==
    /\ last.pixels # <<>>
        => /\ Len(last.pixels) = WINDOW_WIDTH
           /\ ppu.ly <= 143
           /\ \A i \in 1..Len(last.pixels) :
                /\ last.pixels[i][1] = i - 1
                /\ last.pixels[i][2] = ppu.ly
                /\ last.pixels[i][3] \in 0..3
    /\ last.drawn = LinesDrawn

\* the pass that draws line 143, the last of the 144 lines of the frame
C29_LastLineDrawn ==
    /\ last.pixels # <<>>
    /\ ppu.ly = 143
    /\ last.drawn = 144

\* the pass has executed LDH A,(0x00): A holds ReadMem(0xFF00)
JoypadLoaded == last.kind = "exec" /\ last.opcode = 240 /\ last.lo = 0

\* bit k of the low nibble: 0 exactly when a button mapped to bit k is
\* pressed and its group is selected
MatrixBit(right_to_down, a_to_start) ==
    IF (Bit(memory[P1_REG], 4) = 0 /\ joypad[right_to_down])
        \/ (Bit(memory[P1_REG], 5) = 0 /\ joypad[a_to_start])
    THEN 0 ELSE 1

\* the stored bits 7..4 over the low nibble of the button matrix
MatrixByte ==
    (memory[P1_REG] \div 16) * 16
        + MatrixBit("right", "a") + 2 * MatrixBit("left", "b")
        + 4 * MatrixBit("up", "select") + 8 * MatrixBit("down", "start")

\* C30: ReadMem(0xFF00) returns the stored bits 7..4 and a low nibble whose
\* bit k is 0 exactly when a button mapped to bit k is pressed and its group
\* is selected (bit 4 clear: Right, Left, Up, Down; bit 5 clear: A, B, Select,
\* Start), and leaves memory[0xFF00] unchanged
C30_JoypadRead ==
    JoypadLoaded => Hi(cpu.AF) = MatrixByte /\ memory[P1_REG] = last.at.p1

\* C30 as amended: the same when no DMA transfer is running at the read
C30_JoypadReadOutsideDma ==
    JoypadLoaded /\ ~last.at.dma
        => Hi(cpu.AF) = MatrixByte /\ memory[P1_REG] = last.at.p1

\* a read with the d-pad alone selected while Down and A are held: Down reads
\* 0, A reads 1
C30_DownReadNotA ==
    /\ JoypadLoaded
    /\ ~last.at.dma
    /\ joypad.down /\ joypad.a
    /\ memory[P1_REG] = 32
    /\ Hi(cpu.AF) = 39

(***************************************************************************)
(* The arithmetic instructions                                             *)
(***************************************************************************)
\* the byte an 8-bit arithmetic instruction of pass e operates on: the
\* register its opcode designates, the byte at HL, or the byte that follows
\* the opcode (the opcode itself when the HALT bug had PC stay)
OperandOf(e) ==
    IF e.opcode >= 192 THEN (IF e.at.halt_bug THEN e.opcode ELSE e.lo)
    ELSE CASE e.opcode % 8 = 0 -> Hi(e.at.BC)
           [] e.opcode % 8 = 1 -> Lo(e.at.BC)
           [] e.opcode % 8 = 2 -> Hi(e.at.DE)
           [] e.opcode % 8 = 3 -> Lo(e.at.DE)
           [] e.opcode % 8 = 4 -> Hi(e.at.HL)
           [] e.opcode % 8 = 5 -> Lo(e.at.HL)
           [] e.opcode % 8 = 6 -> memory[e.at.HL]
           [] OTHER -> Hi(e.at.AF)

\* the pass has executed one of the opcodes
Did(opcodes) == last.kind = "exec" /\ last.opcode \in opcodes

AddOps == (128..135) \cup {198}

AdcOps == (136..143) \cup {206}

\* C31: ADD A,n and ADC A,n, with a register, the byte at HL or an immediate
\* byte, leave (A+n+c) mod 256 in A, Z = (result = 0), N = 0,
\* H = ((A&0xF)+(n&0xF)+c > 0xF) and C = (A+n+c > 0xFF), where c is the carry
\* on entry for ADC and 0 for ADD
C31_AddAdc ==
    Did(AddOps \cup AdcOps) =>
        LET a == Hi(last.at.AF)
            n == OperandOf(last)
            c == IF last.opcode \in AdcOps THEN Bit(last.at.AF, 4) ELSE 0
        IN  /\ Hi(cpu.AF) = (a + n + c) % 256
            /\ (Bit(cpu.AF, 7) = 1) = ((a + n + c) % 256 = 0)
            /\ Bit(cpu.AF, 6) = 0
            /\ (Bit(cpu.AF, 5) = 1) = ((a % 16) + (n % 16) + c > 15)
            /\ (Bit(cpu.AF, 4) = 1) = (a + n + c > 255)

SubOps == (144..151) \cup {214}

SbcOps == (152..159) \cup {222}

CpOps == (184..191) \cup {254}

\* C32: SUB A,n, SBC A,n and CP A,n set Z = ((A-n-c) mod 256 = 0), N = 1,
\* H = ((A&0xF) < (n&0xF)+c) and C = (A < n+c), where c is the carry on
\* entry for SBC and 0 for SUB and CP; SUB and SBC leave (A-n-c) mod 256 in A
\* and CP leaves A as it was
C32_SubSbcCp ==
    Did(SubOps \cup SbcOps \cup CpOps) =>
        LET a == Hi(last.at.AF)
            n == OperandOf(last)
            c == IF last.opcode \in SbcOps THEN Bit(last.at.AF, 4) ELSE 0
        IN  /\ Hi(cpu.AF) = IF last.opcode \in CpOps THEN a ELSE (a - n - c) % 256
            /\ (Bit(cpu.AF, 7) = 1) = ((a - n - c) % 256 = 0)
            /\ Bit(cpu.AF, 6) = 1
            /\ (Bit(cpu.AF, 5) = 1) = ((a % 16) < (n % 16) + c)
            /\ (Bit(cpu.AF, 4) = 1) = (a < n + c)

\* the register pair ADD HL,rr of pass e adds
PairOf(e) ==
    CASE e.opcode = 9 -> e.at.BC
      [] e.opcode = 25 -> e.at.DE
      [] e.opcode = 41 -> e.at.HL
      [] OTHER -> e.at.SP

\* C33: ADD HL,rr leaves (HL+rr) mod 65536 in HL and Z as it was, clears N,
\* and sets H exactly when (HL&0x0FFF)+(rr&0x0FFF) > 0x0FFF and C exactly
\* when HL+rr > 0xFFFF
C33_AddHL ==
    Did({9, 25, 41, 57}) =>
        LET hl == last.at.HL
            rr == PairOf(last)
        IN  /\ cpu.HL = (hl + rr) % 65536
            /\ Bit(cpu.AF, 7) = Bit(last.at.AF, 7)
            /\ Bit(cpu.AF, 6) = 0
            /\ (Bit(cpu.AF, 5) = 1) = ((hl % 4096) + (rr % 4096) > 4095)
            /\ (Bit(cpu.AF, 4) = 1) = (hl + rr > 65535)

\* C34: DAA with N clear adds 0x60 and sets C when C was set or A > 0x99, and
\* adds 0x06 when H was set or (A & 0xF) > 9; with N set it subtracts 0x60
\* when C was set and 0x06 when H was set; afterwards Z = (A = 0), H = 0, N
\* is as it was and C is set if it was
C34_Daa ==
    Did({39}) =>
        LET a == Hi(last.at.AF)
            n == Bit(last.at.AF, 6) = 1
            h == Bit(last.at.AF, 5) = 1
            c == Bit(last.at.AF, 4) = 1
            high == IF n THEN c ELSE c \/ a > 153
            low == IF n THEN h ELSE h \/ a % 16 > 9
            correction == (IF high THEN 96 ELSE 0) + (IF low THEN 6 ELSE 0)
            result == IF n THEN (a - correction) % 256 ELSE (a + correction) % 256
        IN  /\ Hi(cpu.AF) = result
            /\ (Bit(cpu.AF, 7) = 1) = (result = 0)
            /\ (Bit(cpu.AF, 6) = 1) = n
            /\ Bit(cpu.AF, 5) = 0
            /\ (Bit(cpu.AF, 4) = 1) = (c \/ (~n /\ a > 153))

\* a DAA after an addition that corrected both digits and set C, and one
\* after a subtraction that borrowed from both digits
C34_BothDigitsCorrected ==
    /\ Did({39})
    /\ prev.kind = "exec"
    /\ \/ /\ last.at.AF = 154 * 256
          /\ cpu.AF = 144
       \/ /\ last.at.AF = 15 * 256 + 112
          /\ cpu.AF = 169 * 256 + 80

\* C35: after A = 0x3A and ADD A,0x06, which leaves A = 0x40 with H = 1,
\* N = 0 and C = 0, DAA leaves A = 0x40, Z = 0, H = 0 and C = 0
C35_DaaExample ==
    /\ Did({39})
    /\ prev.kind = "exec" /\ prev.opcode = 198 /\ prev.lo = 6
    /\ ~prev.at.halt_bug /\ Hi(prev.at.AF) = 58
    => /\ Hi(last.at.AF) = 64
       /\ Bit(last.at.AF, 6) = 0 /\ Bit(last.at.AF, 5) = 1 /\ Bit(last.at.AF, 4) = 0
       /\ Hi(cpu.AF) = 64
       /\ Bit(cpu.AF, 7) = 0 /\ Bit(cpu.AF, 5) = 0 /\ Bit(cpu.AF, 4) = 0

\* C35, amended: after A = 0x3A and ADD A,0x06, which leaves A = 0x40 with
\* H = 1, N = 0 and C = 0, DAA leaves A = 0x46, Z = 0, H = 0 and C = 0
C35_DaaExampleYields46 ==
    /\ Did({39})
    /\ prev.kind = "exec" /\ prev.opcode = 198 /\ prev.lo = 6
    /\ ~prev.at.halt_bug /\ Hi(prev.at.AF) = 58
    => /\ Hi(last.at.AF) = 64
       /\ Bit(last.at.AF, 6) = 0 /\ Bit(last.at.AF, 5) = 1 /\ Bit(last.at.AF, 4) = 0
       /\ Hi(cpu.AF) = 70
       /\ Bit(cpu.AF, 7) = 0 /\ Bit(cpu.AF, 5) = 0 /\ Bit(cpu.AF, 4) = 0

\* the example has run
C35_ExampleRun ==
    /\ Did({39})
    /\ prev.kind = "exec" /\ prev.opcode = 198 /\ prev.lo = 6
    /\ ~prev.at.halt_bug /\ Hi(prev.at.AF) = 58
    /\ last.at.AF = 64 * 256 + 32
    /\ Hi(cpu.AF) = 70

(***************************************************************************)
(* Decoding, dispatch and the pace of the tick loop                        *)
(***************************************************************************)
\* the opcodes of the model whose handlers read ReadMem(PC - 1): INC_r,
\* LD_r_d8, ADD_HL_rr, LD_r_r, the 8-bit arithmetic with a register, RST
RereadOps ==
    {4, 12, 20, 28, 36, 44, 52, 60} \cup {6, 14, 22, 30, 38, 46, 54, 62}
    \cup {9, 25, 41, 57} \cup ((64..127) \ {118}) \cup (128..159) \cup (184..191)
    \cup {199, 207, 215, 223, 231, 239, 247, 255}

\* C36: a handler that reads its opcode again with ReadMem(PC - 1) reads the
\* byte FetchByte returned and the tick loop dispatched on, also for the
\* fetch that follows the HALT bug and for a fetch the DMA lockout or the
\* VRAM gate answers
C36_RereadIsDispatched == Did(RereadOps) => last.reread = last.opcode

\* the five vectors 0x0040, 0x0048, 0x0050, 0x0058 and 0x0060
Vectors == {64, 72, 80, 88, 96}

\* after is before with exactly one of its set bits cleared
OneBitCleared(before, after) ==
    \E k \in 0..7 : Bit(before, k) = 1 /\ after = before - 2^k

\* C37: a call of handleInterrupts that clears IME and pushes PC, returning
\* 20, also sets PC to one of the five vectors and clears exactly one bit of
\* IF, whatever IE and IF hold
C37_ServiceTakesVector ==
    [][last'.irq = 20 =>
          /\ cpu.IME /\ ~last'.at.IME
          /\ last'.at.SP = W16(cpu.SP + 65534)
          /\ last'.at.PC \in Vectors
          /\ OneBitCleared(memory[IF_REG], last'.at.iflag)]_vars

\* C38: at every instruction boundary the counter of the PPU is below the
\* length of its mode (80 OAM_SCAN, 172 DRAWING, 204 HBLANK, 456 VBLANK): the
\* one transition ppu_step makes in a pass leaves none due, a pass handing it
\* 24 T-cycles at most
C38_CounterBelowModeLength ==
    /\ ppu.cycle_counter < ModeLength(ppu.mode)
    /\ last.cycles <= 24

\* the longest pass, a CALL, ended an HBLANK 4 cycles short of its end: the
\* PPU is 20 cycles into the OAM scan of the next line
C38_CallAcrossHblankEnd ==
    /\ last.kind = "exec" /\ last.opcode = 205 /\ last.cycles = 24
    /\ ppu.mode = MODE_2_OAM_SCAN /\ ppu.ly = 1 /\ ppu.cycle_counter = 20

\* C39: a pass of the tick loop that leaves cpu.running true adds at least 4
\* T-cycles to cycles_this_frame: a handler of either table returns at least
\* 4 and a halted pass adds 4, so the count of the frame rises with every
\* pass until the loop ends
C39_PassAddsFourCycles ==
    [][cpu'.running =>
          /\ cycles_this_frame' >= cycles_this_frame + 4
          /\ last'.kind = "exec" => last'.cost >= 4
          /\ last'.kind = "halted" => last'.cycles = 4]_vars

\* a halted pass: the CPU is still halted and running, 4 cycles on
C39_HaltedPass ==
    /\ last.kind = "halted" /\ cpu.halted /\ cpu.running
    /\ cycles_this_frame = 4

\* C40: a halted CPU whose IE has bit 0 set leaves the halted state, with IME
\* set or clear: the PPU enters VBLANK and sets bit 0 of IF, and the next call
\* of handleInterrupts clears halted
C40_HaltedCpuWakes ==
    /\ [][cpu.halted /\ ppu.mode # MODE_1_VBLANK /\ ppu'.mode = MODE_1_VBLANK
              => Bit(memory'[IF_REG], 0) = 1]_vars
    /\ [][cpu.halted /\ And8(memory[IE_REG], memory[IF_REG]) # 0
              => ~cpu'.halted]_vars
    /\ (cpu.halted /\ Bit(memory[IE_REG], 0) = 1) ~> ~cpu.halted

\* the CPU halted at the start of a VBLANK whose request was gone, waited for
\* the next VBLANK across the end of the frame of the loop and woke with IME
\* clear: nothing was served
C40_WokenByNextVblank ==
    /\ prev.kind = "halted" /\ last.kind = "exec" /\ last.irq = 0
    /\ ~cpu.halted /\ ~cpu.IME /\ frames = 1
    /\ Bit(memory[IF_REG], 0) = 1
    /\ ppu.mode = MODE_1_VBLANK /\ ppu.ly = 144

====
